---- MODULE Spec2Model ----
(***************************************************************************)
(* periodic-osmium: a Redis-backed cache service (CacheService) and the    *)
(* Express middleware built on it.                                         *)
(*                                                                         *)
(* Representation.                                                         *)
(*   - Key strings (namespaces, keys, tags, glob patterns) are sequences   *)
(*     of one-character strings, so that the template literal              *)
(*     `${ns}:${key}` is a concatenation and prefix collisions between     *)
(*     namespaces, keys and tag-set keys arise as they do in the code.     *)
(*   - Payload strings (what JSON.stringify returns and what is stored     *)
(*     under a key) are sequences of UTF-16 code units (integers), so that *)
(*     the UTF-8 and base64 conversions of compress/decompress are         *)
(*     computed, not assumed.                                              *)
(*   - Time is in whole seconds; a key with expiry time e is live while    *)
(*     now < e.                                                            *)
(***************************************************************************)
EXTENDS Integers, Sequences, FiniteSets, TLC

VARIABLES
    store,      \* the Redis keyspace: full key -> [kind, data, members, exp]
    now,        \* the store's clock, in seconds
    healthy,    \* whether store commands currently succeed
    pc,         \* position of the one multi-await call in flight ("idle" if none)
    call,       \* arguments and locals of the call in flight
    last,       \* history: the record of the most recent completed call
    tagged,     \* history: key of a live entry -> namespace and tags of the set that wrote it
    nops,       \* number of calls started so far
    reqs,       \* the HTTP requests received so far, each with its response
    client      \* the client of createRedisClient and its shutdown routine

vars == <<store, now, healthy, pc, call, last, tagged, nops, reqs, client>>

(***************************************************************************)
(* Bounds of the model.                                                    *)
(***************************************************************************)
MaxTime == 2
MaxOps == 3

\* The number of getOrSet calls in a behaviour of SpecGetOrSet.
MaxGetOrSets == 2

\* The number of calls in a behaviour of SpecRoundTrip.
MaxRoundTripOps == 2

(***************************************************************************)
(* Program constants.                                                      *)
(***************************************************************************)
compressionThreshold == 1024
DefaultTTL == 3600
batchSize == 100

(***************************************************************************)
(* Generic helpers.                                                        *)
(***************************************************************************)
Min(a, b) == IF a < b THEN a ELSE b

Max(a, b) == IF a > b THEN a ELSE b

Range(s) == {s[i] : i \in 1..Len(s)}

\* s with its first n elements dropped (String.prototype.slice(n)).
Slice(s, n) == [i \in 1..Max(Len(s) - n, 0) |-> s[i + n]]

\* s[from..to], both inclusive, as a sequence.
Sub(s, from, to) == [i \in 1..Max(to - from + 1, 0) |-> s[from + i - 1]]

\* String.prototype.startsWith.
StartsWith(s, p) == Len(s) >= Len(p) /\ \A i \in 1..Len(p) : s[i] = p[i]

(***************************************************************************)
(* Payload strings: code units.                                            *)
(***************************************************************************)
\* "compressed:" as code units.
Marker == <<99, 111, 109, 112, 114, 101, 115, 115, 101, 100, 58>>

Quote == 34

\* Variant of Utf8Char: the 'latin1' encoding, one byte for a code unit.
Latin1Char(c) == <<c % 256>>

\* Buffer.from(data): UTF-8 encoding of a string of BMP code units (no
\* surrogates: JSON.stringify escapes lone surrogates, and the payloads of
\* the model hold none).  Divide and conquer keeps the evaluation shallow.
Utf8Char(c) ==
    IF c < 128 THEN <<c>>
    ELSE IF c < 2048 THEN <<192 + (c \div 64), 128 + (c % 64)>>
    ELSE <<224 + (c \div 4096), 128 + ((c \div 64) % 64), 128 + (c % 64)>>

\* The bytes of s[lo..hi].
RECURSIVE Utf8Range(_, _, _)
Utf8Range(s, lo, hi) ==
    IF lo > hi THEN <<>>
    ELSE IF lo = hi THEN Utf8Char(s[lo])
    ELSE LET h == (lo + hi) \div 2
         IN Utf8Range(s, lo, h) \o Utf8Range(s, h + 1, hi)

Utf8Encode(s) == Utf8Range(s, 1, Len(s))

\* A continuation byte 10xxxxxx.
IsCont(b) == b >= 128 /\ b < 192

\* One UTF-8 sequence (1 to 3 bytes) to its code unit; an ill-formed sequence
\* decodes to U+FFFD, as Buffer.prototype.toString('utf-8') does.
Utf8One(bs) ==
    IF Len(bs) = 1 /\ bs[1] < 128 THEN bs[1]
    ELSE IF Len(bs) = 2 /\ bs[1] >= 192 /\ bs[1] < 224 /\ IsCont(bs[2])
        THEN (bs[1] - 192) * 64 + (bs[2] - 128)
    ELSE IF Len(bs) = 3 /\ bs[1] >= 224 /\ bs[1] < 240 /\ IsCont(bs[2]) /\ IsCont(bs[3])
        THEN (bs[1] - 224) * 4096 + (bs[2] - 128) * 64 + (bs[3] - 128)
    ELSE 65533

\* The first index >= i of bs that starts a sequence (or Len(bs) + 1).
NextStart(bs, i) ==
    IF i > Len(bs) THEN i
    ELSE CHOOSE j \in i..(Len(bs) + 1) :
             /\ j > Len(bs) \/ ~IsCont(bs[j])
             /\ \A k \in i..(j - 1) : IsCont(bs[k])

RECURSIVE Utf8Decode(_)
Utf8Decode(bs) ==
    IF Len(bs) = 0 THEN <<>>
    ELSE LET m == NextStart(bs, (Len(bs) \div 2) + 1)
             n == NextStart(bs, 2)
         IN IF n > Len(bs) THEN <<Utf8One(bs)>>
            ELSE IF m > Len(bs)
                THEN Utf8Decode(Sub(bs, 1, n - 1)) \o Utf8Decode(Sub(bs, n, Len(bs)))
            ELSE Utf8Decode(Sub(bs, 1, m - 1)) \o Utf8Decode(Sub(bs, m, Len(bs)))

\* The base64 alphabet: sextet -> code unit, and back.
B64Char(v) ==
    IF v < 26 THEN 65 + v
    ELSE IF v < 52 THEN 97 + (v - 26)
    ELSE IF v < 62 THEN 48 + (v - 52)
    ELSE IF v = 62 THEN 43
    ELSE 47

B64Val(c) ==
    IF c >= 65 /\ c <= 90 THEN c - 65
    ELSE IF c >= 97 /\ c <= 122 THEN c - 97 + 26
    ELSE IF c >= 48 /\ c <= 57 THEN c - 48 + 52
    ELSE IF c = 43 THEN 62
    ELSE 63

Pad == 61

\* buffer.toString('base64').
Base64Encode(bs) ==
    LET n == Len(bs)
        at(i) == IF i <= n THEN bs[i] ELSE 0
        group(g) == at(3 * g + 1) * 65536 + at(3 * g + 2) * 256 + at(3 * g + 3)
        sextet(g, p) ==
            IF p = 0 THEN group(g) \div 262144
            ELSE IF p = 1 THEN (group(g) \div 4096) % 64
            ELSE IF p = 2 THEN (group(g) \div 64) % 64
            ELSE group(g) % 64
    IN [j \in 1..(4 * ((n + 2) \div 3)) |->
            LET g == (j - 1) \div 4
                p == (j - 1) % 4
            IN IF p = 2 /\ 3 * g + 2 > n THEN Pad
               ELSE IF p = 3 /\ 3 * g + 3 > n THEN Pad
               ELSE B64Char(sextet(g, p))]

\* Buffer.from(text, 'base64') for text that is a base64 encoding: the
\* padding tells how many bytes the last group holds.
Base64Decode(cs) ==
    LET m == Len(cs)
        pads == IF m = 0 THEN 0
                ELSE IF cs[m - 1] = Pad THEN 2
                ELSE IF cs[m] = Pad THEN 1
                ELSE 0
        n == 3 * (m \div 4) - pads
        val(j) == IF cs[j] = Pad THEN 0 ELSE B64Val(cs[j])
        group(g) == val(4 * g + 1) * 262144 + val(4 * g + 2) * 4096
                        + val(4 * g + 3) * 64 + val(4 * g + 4)
    IN [i \in 1..Max(n, 0) |->
            LET g == (i - 1) \div 3
                p == (i - 1) % 3
            IN IF p = 0 THEN group(g) \div 65536
               ELSE IF p = 1 THEN (group(g) \div 256) % 256
               ELSE group(g) % 256]

\* Variant of compress that also encodes a text of exactly the threshold's
\* length.
compressFromThreshold(data) ==
    IF Len(data) >= compressionThreshold
        THEN Marker \o Base64Encode(Utf8Encode(data))
        ELSE data

\* CacheService.compress: base64 behind the marker when the serialized text
\* is longer than the threshold, the text itself otherwise.
compress(data) ==
    IF Len(data) > compressionThreshold
        THEN Marker \o Base64Encode(Utf8Encode(data))
        ELSE data

\* CacheService.decompress.
decompress(data) ==
    IF StartsWith(data, Marker)
        THEN Utf8Decode(Base64Decode(Slice(data, 11)))
        ELSE data

(***************************************************************************)
(* JavaScript values and JSON.                                             *)
(* A value is undefined, null, a boolean, a non-negative integer or a      *)
(* string of code units that JSON.stringify copies unescaped.              *)
(***************************************************************************)
JUndefined == [t |-> "undefined", n |-> 0, s |-> <<>>]

JNull == [t |-> "null", n |-> 0, s |-> <<>>]

JBool(b) == [t |-> "bool", n |-> IF b THEN 1 ELSE 0, s |-> <<>>]

JNum(n) == [t |-> "num", n |-> n, s |-> <<>>]

JStr(s) == [t |-> "str", n |-> 0, s |-> s]

\* What a rejected promise or a throw carries instead of a value.
Raised == [t |-> "raised", n |-> 0, s |-> <<>>]

\* The value JSON.parse throws on.
SyntaxError == [t |-> "syntaxerror", n |-> 0, s |-> <<>>]

TextNull == <<110, 117, 108, 108>>

TextTrue == <<116, 114, 117, 101>>

TextFalse == <<102, 97, 108, 115, 101>>

RECURSIVE Digits(_)
Digits(n) == IF n < 10 THEN <<48 + n>> ELSE Digits(n \div 10) \o <<48 + (n % 10)>>

IsDigit(c) == c >= 48 /\ c <= 57

RECURSIVE Number(_, _)
Number(text, i) ==
    IF i = 0 THEN 0 ELSE Number(text, i - 1) * 10 + (text[i] - 48)

\* JSON.stringify(value): a text, or <<>> standing for the non-string
\* `undefined` it returns for an undefined value (no JSON text is empty).
JSONstringify(v) ==
    CASE v.t = "null" -> TextNull
      [] v.t = "bool" -> IF v.n = 1 THEN TextTrue ELSE TextFalse
      [] v.t = "num" -> Digits(v.n)
      [] v.t = "str" -> <<Quote>> \o v.s \o <<Quote>>
      [] OTHER -> <<>>

\* JSON.parse(text).
JSONparse(text) ==
    IF text = TextNull THEN JNull
    ELSE IF text = TextTrue THEN JBool(TRUE)
    ELSE IF text = TextFalse THEN JBool(FALSE)
    ELSE IF Len(text) >= 2 /\ text[1] = Quote /\ text[Len(text)] = Quote
            /\ \A i \in 2..(Len(text) - 1) : text[i] # Quote
        THEN JStr(Sub(text, 2, Len(text) - 1))
    ELSE IF Len(text) >= 1 /\ (\A i \in 1..Len(text) : IsDigit(text[i]))
            /\ (Len(text) = 1 \/ text[1] # 48)
        THEN JNum(Number(text, Len(text)))
    ELSE SyntaxError

(***************************************************************************)
(* Key strings.                                                            *)
(***************************************************************************)
Colon == <<":">>

TagPrefix == <<"t", "a", "g", ":">>

\* CacheService.generateKey: `${namespace || this.namespace}:${key}`; an
\* omitted (or empty) namespace argument is <<>>.
generateKey(key, namespace, thisNamespace) ==
    (IF namespace # <<>> THEN namespace ELSE thisNamespace) \o Colon \o key

\* The key of a tag set: generateKey(`tag:${tag}`).
tagKeyOf(tag, thisNamespace) == generateKey(TagPrefix \o tag, <<>>, thisNamespace)

\* Redis glob matching (stringmatchlen) for the patterns of the model:
\* `*` matches any run of characters, `?` any one character, any other
\* character itself.
RECURSIVE GlobMatch(_, _)
GlobMatch(p, s) ==
    IF p = <<>> THEN s = <<>>
    ELSE IF p[1] = "*"
        THEN GlobMatch(Tail(p), s) \/ (s # <<>> /\ GlobMatch(p, Tail(s)))
    ELSE IF s = <<>> THEN FALSE
    ELSE (p[1] = "?" \/ p[1] = s[1]) /\ GlobMatch(Tail(p), Tail(s))

(***************************************************************************)
(* The store: Redis commands as functions of the keyspace.  The keyspace   *)
(* holds live keys only (Tick removes a key when its expiry time comes).   *)
(* An entry's exp is its expiry time, 0 for a key without expiry.          *)
(***************************************************************************)
StringEntry(data, exp) == [kind |-> "string", data |-> data, members |-> {}, exp |-> exp]

SetEntry(members, exp) == [kind |-> "set", data |-> <<>>, members |-> members, exp |-> exp]

Put(s, k, e) == (k :> e) @@ s

Remove(s, ks) == [x \in (DOMAIN s) \ ks |-> s[x]]

Has(s, k) == k \in DOMAIN s

\* The keys of s that have expired at time t.
Expired(s, t) == {k \in DOMAIN s : s[k].exp # 0 /\ s[k].exp <= t}

\* SETEX key seconds value: any old value, of any type, is replaced; a
\* non-positive expiry is an error ("invalid expire time").
cmdSETEX(s, t, k, seconds, data) ==
    IF seconds <= 0 THEN s ELSE Put(s, k, StringEntry(data, t + seconds))

\* SADD key member: WRONGTYPE (no effect) on a key that holds a string.
cmdSADD(s, k, m) ==
    IF ~Has(s, k) THEN Put(s, k, SetEntry({m}, 0))
    ELSE IF s[k].kind = "set" THEN Put(s, k, SetEntry(s[k].members \cup {m}, s[k].exp))
    ELSE s

\* EXPIRE key seconds: sets the expiry of an existing key of any type.
cmdEXPIRE(s, t, k, seconds) ==
    IF ~Has(s, k) THEN s
    ELSE IF seconds <= 0 THEN Remove(s, {k})
    ELSE Put(s, k, [s[k] EXCEPT !.exp = t + seconds])

\* DEL key [key ...]: the keyspace after it; its reply is the number of
\* keys that existed.
cmdDEL(s, ks) == Remove(s, ks)

replyDEL(s, ks) == Cardinality(ks \cap DOMAIN s)

\* SMEMBERS key: the members, {} for an absent key; WRONGTYPE on a string.
errSMEMBERS(s, k) == Has(s, k) /\ s[k].kind # "set"

replySMEMBERS(s, k) == IF Has(s, k) /\ s[k].kind = "set" THEN s[k].members ELSE {}

\* GET key: the string, <<>> standing for the nil reply; WRONGTYPE on a set.
errGET(s, k) == Has(s, k) /\ s[k].kind # "string"

replyGET(s, k) == IF Has(s, k) /\ s[k].kind = "string" THEN s[k].data ELSE <<>>

(***************************************************************************)
(* CacheService.  A service is its configuration: [namespace, defaultTTL]. *)
(***************************************************************************)
Service(namespace, defaultTTL) == [namespace |-> namespace, defaultTTL |-> defaultTTL]

\* The pipeline of CacheService.set as Redis runs it: SETEX, then SADD and
\* EXPIRE for each tag in turn.  A command that fails (WRONGTYPE) leaves the
\* keyspace as it was and the later commands still run.
RECURSIVE pipelineTags(_, _, _, _, _, _)
pipelineTags(s, t, fullKey, expiry, tags, thisNamespace) ==
    IF tags = <<>> THEN s
    ELSE LET tagKey == tagKeyOf(Head(tags), thisNamespace)
             s1 == cmdSADD(s, tagKey, fullKey)
             s2 == cmdEXPIRE(s1, t, tagKey, expiry)
         IN pipelineTags(s2, t, fullKey, expiry, Tail(tags), thisNamespace)

\* `ttl || this.defaultTTL`: ttl 0 stands for an omitted ttl.
expiryOf(svc, ttl) == IF ttl # 0 THEN ttl ELSE svc.defaultTTL

\* Whether the try block of set raises before the pipeline is sent:
\* JSON.stringify(undefined) is undefined, and compress reads its length.
setThrows(value) == JSONstringify(value) = <<>>

\* The keyspace after the pipeline of set(key, value, ttl, tags) has run.
setPipeline(s, t, svc, key, value, ttl, tags) ==
    LET fullKey == generateKey(key, <<>>, svc.namespace)
        data == compress(JSONstringify(value))
        s1 == cmdSETEX(s, t, fullKey, expiryOf(svc, ttl), data)
    IN pipelineTags(s1, t, fullKey, expiryOf(svc, ttl), tags, svc.namespace)

\* Variant of getValue that hands the error of a GET on a key that holds a
\* set to its caller.
getValueRaising(s, svc, key, namespace) ==
    LET fullKey == generateKey(key, namespace, svc.namespace)
        data == replyGET(s, fullKey)
    IN IF errGET(s, fullKey) THEN Raised
       ELSE IF data = <<>> THEN JNull
       ELSE JSONparse(decompress(data))

\* CacheService.get on keyspace s with the store answering: the parsed
\* value, or null for a miss and for any error (WRONGTYPE, a parse error).
getValue(s, svc, key, namespace) ==
    LET fullKey == generateKey(key, namespace, svc.namespace)
        data == replyGET(s, fullKey)
    IN IF errGET(s, fullKey) THEN JNull
       ELSE IF data = <<>> THEN JNull
       ELSE LET v == JSONparse(decompress(data))
            IN IF v = SyntaxError THEN JNull ELSE v

\* Whether the try block of get raises with the store answering: GET on a
\* key that holds a set, or a payload that is no JSON text.
getRaises(s, svc, key, namespace) ==
    LET fullKey == generateKey(key, namespace, svc.namespace)
    IN \/ errGET(s, fullKey)
       \/ /\ replyGET(s, fullKey) # <<>>
          /\ JSONparse(decompress(replyGET(s, fullKey))) = SyntaxError

(***************************************************************************)
(* History.  `last` is the record of the most recent completed call.  The  *)
(* pred of a get, an invalidateByTags or a getOrSet summarises the call    *)
(* completed before it when that call was on the same service and key.     *)
(***************************************************************************)
NoPred == [op |-> "none", val |-> JUndefined, ttl |-> 0, tags |-> <<>>,
           ret |-> JUndefined, time |-> 0, ok |-> TRUE, quiet |-> TRUE, fetches |-> 0]

NoRecord == [op |-> "none", ns |-> <<>>, key |-> <<>>, val |-> JUndefined, ttl |-> 0,
             tags |-> <<>>, ret |-> JUndefined, time |-> 0, dom0 |-> {},
             tagged0 |-> <<>>, read |-> {}, removed |-> {}, changed |-> {},
             ok |-> TRUE, quiet |-> TRUE, fetches |-> 0, fails |-> 0, time0 |-> 0,
             getFailed |-> FALSE, setFailed |-> FALSE, pred |-> NoPred,
             keysToDelete |-> <<>>, batches |-> <<>>]

Summary(r) == [op |-> r.op, val |-> r.val, ttl |-> r.ttl, tags |-> r.tags, ret |-> r.ret,
               time |-> r.time, ok |-> r.ok, quiet |-> r.quiet, fetches |-> r.fetches]

PredOf(r, ns, key) == IF r.ns = ns /\ r.key = key THEN Summary(r) ELSE NoPred

\* The keys whose entry differs between two keyspaces.
Changed(s, s2) ==
    {k \in (DOMAIN s) \cup (DOMAIN s2) :
        ~(k \in DOMAIN s /\ k \in DOMAIN s2 /\ s[k] = s2[k])}

\* tagged restricted to the keys that still hold the string it describes.
Retag(tg, s) == [k \in {x \in DOMAIN tg : Has(s, x) /\ s[x].kind = "string"} |-> tg[k]]

NoCall == [op |-> "none", svc |-> Service(<<>>, 0), key |-> <<>>, ttl |-> 0, tags |-> <<>>,
           i |-> 0, total |-> 0, members |-> {}, keysToDelete |-> <<>>,
           remaining |-> {}, data |-> JUndefined,
           dom0 |-> {}, tagged0 |-> <<>>, read |-> {}, removed |-> {}, changed |-> {},
           ok |-> TRUE, quiet |-> TRUE, fetches |-> 0, fails |-> 0, time0 |-> 0,
           getFailed |-> FALSE, setFailed |-> FALSE, batches |-> <<>>]

\* Before createRedisClient: no client, no listener, no signal yet.
\* status is client.status; listeners are the signals `shutdown` is
\* registered for; sd is the position of the shutdown routine; told are the
\* closing calls the client has received, in order.  seen (the status the
\* routine read), quitFailed, signals, late (invocations that returned at
\* the flag) and exited (the process ended on a signal without a listener)
\* are history.  kind is the client constructed ("cluster", "url" or
\* "hostport"), nodes the number of cluster nodes handed to it and config
\* the configuration it was made from; retryAttempts counts the reconnect
\* attempts since the connection was last ready and delays are the delays,
\* in ms, the retry strategy gave for them.
RedisConfig(url, clusterNodes, isProduction, lazyConnect) ==
    [url |-> url, clusterNodes |-> clusterNodes, isProduction |-> isProduction,
     lazyConnect |-> lazyConnect]

NoClient == [status |-> "none", isShuttingDown |-> FALSE, listeners |-> {},
             sd |-> "none", told |-> <<>>, seen |-> "none", quitFailed |-> FALSE,
             signals |-> 0, late |-> 0, exited |-> FALSE,
             kind |-> "none", nodes |-> 0, config |-> RedisConfig(<<>>, <<>>, FALSE, FALSE),
             retryAttempts |-> 0, delays |-> <<>>]

\* A call in flight is no longer alone once another call or an expiry has
\* changed the keyspace under it.
Disturb(c, s, s2) == IF pc # "idle" /\ s # s2 THEN [c EXCEPT !.quiet = FALSE] ELSE c

(***************************************************************************)
(* The calls of one await: set, get, del.                                  *)
(***************************************************************************)
\* CacheService.set.
Set(svc, key, value, ttl, tags) ==
    /\ nops < MaxOps
    /\ nops' = nops + 1
    /\ \E resolved \in BOOLEAN :
        LET fullKey == generateKey(key, <<>>, svc.namespace)
            threw == setThrows(value)
            applied == ~threw /\ healthy
            s2 == IF applied THEN setPipeline(store, now, svc, key, value, ttl, tags)
                  ELSE store
            \* With the store down the pipeline's promise either rejects or
            \* resolves with one error per command (ioredis collects them).
            ret == IF threw THEN FALSE ELSE IF healthy THEN TRUE ELSE resolved
        IN /\ (healthy \/ threw) => resolved
           /\ store' = s2
           /\ tagged' = IF applied
                          THEN Put(Retag(tagged, store'), fullKey,
                                   [ns |-> svc.namespace, tags |-> Range(tags)])
                          ELSE tagged
           /\ call' = Disturb(call, store, store')
           /\ last' = [NoRecord EXCEPT !.op = "set", !.ns = svc.namespace, !.key = key,
                          !.val = value, !.ttl = ttl, !.tags = tags, !.ret = JBool(ret),
                          !.time = now, !.changed = Changed(store, store'),
                          !.ok = applied, !.quiet = (pc = "idle")]
    /\ UNCHANGED <<now, healthy, pc, reqs, client>>

\* CacheService.get.
Get(svc, key) ==
    /\ nops < MaxOps
    /\ nops' = nops + 1
    /\ last' = [NoRecord EXCEPT !.op = "get", !.ns = svc.namespace, !.key = key,
                   !.ret = IF healthy THEN getValue(store, svc, key, <<>>) ELSE JNull,
                   !.time = now, !.ok = healthy,
                   !.quiet = (pc = "idle"),
                   !.pred = PredOf(last, svc.namespace, key)]
    /\ UNCHANGED <<store, now, healthy, pc, call, tagged, reqs, client>>

\* CacheService.del.
Del(svc, key) ==
    /\ nops < MaxOps
    /\ nops' = nops + 1
    /\ LET fullKey == generateKey(key, <<>>, svc.namespace)
           s2 == IF healthy THEN cmdDEL(store, {fullKey}) ELSE store
       IN /\ store' = s2
          /\ tagged' = Retag(tagged, s2)
          /\ call' = Disturb(call, store, s2)
          /\ last' = [NoRecord EXCEPT !.op = "del", !.ns = svc.namespace, !.key = key,
                         !.ret = JBool(healthy), !.time = now,
                         !.removed = (DOMAIN store) \ (DOMAIN s2),
                         !.changed = Changed(store, s2), !.ok = healthy,
                         !.quiet = (pc = "idle")]
    /\ UNCHANGED <<now, healthy, pc, reqs, client>>

(***************************************************************************)
(* The environment: time and the store's availability.                     *)
(***************************************************************************)
\* A second passes; the keys whose expiry time has come are gone.
Tick ==
    /\ now < MaxTime
    /\ now' = now + 1
    /\ LET s2 == Remove(store, Expired(store, now + 1))
       IN /\ store' = s2
          /\ tagged' = Retag(tagged, s2)
          /\ call' = Disturb(call, store, s2)
    /\ UNCHANGED <<healthy, pc, last, nops, reqs, client>>

\* The store stops answering (every command fails) ...
Outage ==
    /\ healthy
    /\ healthy' = FALSE
    /\ UNCHANGED <<store, now, pc, call, last, tagged, nops, reqs, client>>

\* ... and answers again.
Recover ==
    /\ ~healthy
    /\ healthy' = TRUE
    /\ UNCHANGED <<store, now, pc, call, last, tagged, nops, reqs, client>>

(***************************************************************************)
(* The calls of several awaits run one await per step; at most one is in   *)
(* flight, and calls of one await may run between its steps.               *)
(***************************************************************************)
\* The record of the call in flight as it returns ret.
Returned(c, ret) ==
    [NoRecord EXCEPT !.op = c.op, !.ns = c.svc.namespace, !.key = c.key, !.ttl = c.ttl,
        !.tags = c.tags, !.val = c.data, !.ret = ret, !.time = now, !.dom0 = c.dom0,
        !.tagged0 = c.tagged0, !.read = c.read,
        !.removed = c.removed, !.changed = c.changed, !.ok = c.ok, !.quiet = c.quiet,
        !.fetches = c.fetches, !.fails = c.fails, !.time0 = c.time0,
        !.getFailed = c.getFailed, !.setFailed = c.setFailed,
        !.pred = PredOf(last, c.svc.namespace, c.key),
        !.keysToDelete = c.keysToDelete, !.batches = c.batches]

Complete(c, ret) ==
    /\ last' = Returned(c, ret)
    /\ pc' = "idle"
    /\ call' = NoCall

\* CacheService.invalidateByTags(tags): the call.  (It has no key: the key
\* field of its record is empty.)
InvalidateByTags(svc, tags) ==
    /\ pc = "idle"
    /\ nops < MaxOps
    /\ nops' = nops + 1
    /\ LET c == [NoCall EXCEPT !.op = "invalidateByTags", !.svc = svc,
                    !.tags = tags, !.i = 1, !.dom0 = DOMAIN store, !.tagged0 = tagged]
       IN IF tags = <<>>
            THEN Complete(c, JNum(0))
            ELSE /\ pc' = "ibt_smembers"
                 /\ call' = c
                 /\ UNCHANGED last
    /\ UNCHANGED <<store, now, healthy, tagged, reqs, client>>

\* The loop of invalidateByTags moves to the next tag, or returns.
IbtNext(c) ==
    IF c.i >= Len(c.tags)
        THEN Complete(c, JNum(c.total))
        ELSE /\ pc' = "ibt_smembers"
             /\ call' = [c EXCEPT !.i = c.i + 1, !.members = {}]
             /\ UNCHANGED last

\* await this.redis.smembers(tagKey)
IbtSmembers ==
    /\ pc = "ibt_smembers"
    /\ LET tagKey == tagKeyOf(call.tags[call.i], call.svc.namespace)
       IN IF ~healthy \/ errSMEMBERS(store, tagKey)
            THEN Complete([call EXCEPT !.ok = call.ok /\ healthy], JNum(0))
          ELSE IF replySMEMBERS(store, tagKey) = {}
            THEN IbtNext(call)
          ELSE /\ pc' = "ibt_exec"
               /\ call' = [call EXCEPT !.members = replySMEMBERS(store, tagKey),
                                      !.read = call.read \cup replySMEMBERS(store, tagKey)]
               /\ UNCHANGED last
    /\ UNCHANGED <<store, now, healthy, tagged, nops, reqs, client>>

\* Variant of ibtPipeline that leaves the tag set in place.
ibtPipelineKeepsTagSet(s, members, tagKey) == cmdDEL(s, members)

\* Variant of ibtPipeline that deletes every key of the store.
ibtPipelineWide(s, members, tagKey) == cmdDEL(s, DOMAIN s \cup members \cup {tagKey})

\* The pipeline of invalidateByTags for one tag: DEL of every member key,
\* DEL of the tag set.
ibtPipeline(s, members, tagKey) == cmdDEL(cmdDEL(s, members), {tagKey})

\* `totalDeleted += keys.length`.
ibtCount(total, members) == total + Cardinality(members)

\* await pipeline.exec()
IbtExec ==
    /\ pc = "ibt_exec"
    /\ \E resolved \in BOOLEAN :
        LET tagKey == tagKeyOf(call.tags[call.i], call.svc.namespace)
            s2 == IF healthy THEN ibtPipeline(store, call.members, tagKey) ELSE store
            c2 == [call EXCEPT !.total = ibtCount(call.total, call.members),
                       !.removed = call.removed \cup ((DOMAIN store) \ (DOMAIN s2)),
                       !.changed = call.changed \cup Changed(store, s2),
                       !.ok = call.ok /\ healthy]
        IN /\ healthy => resolved
           /\ store' = s2
           /\ tagged' = Retag(tagged, s2)
           /\ IF resolved THEN IbtNext(c2) ELSE Complete(c2, JNum(0))
    /\ UNCHANGED <<now, healthy, nops, reqs, client>>

\* A set as a sequence, in an order fixed by the set (the order of the keys
\* in a SCAN reply is the store's).
SeqOf(S) ==
    LET first(x, y) == CHOOSE z \in {x, y} : TRUE
        rank == [x \in S |-> Cardinality({y \in S : first(x, y) = y})]
    IN [i \in 1..Cardinality(S) |-> CHOOSE x \in S : rank[x] = i]

\* CacheService.delPattern(pattern): the call.  `remaining` is the part of
\* the keyspace the cursor has not passed yet.
DelPattern(svc, pattern) ==
    /\ pc = "idle"
    /\ nops < MaxOps
    /\ nops' = nops + 1
    /\ pc' = "dp_scan"
    /\ call' = [NoCall EXCEPT !.op = "delPattern", !.svc = svc, !.key = pattern,
                   !.remaining = DOMAIN store, !.dom0 = DOMAIN store,
                   !.tagged0 = tagged]
    /\ UNCHANGED <<store, now, healthy, last, tagged, reqs, client>>

\* await this.redis.scan(cursor, 'MATCH', fullPattern, 'COUNT', 100): the
\* cursor passes `visit`, part of what remains (all of it on the last call),
\* and the reply holds the keys of visit that exist and match; it may also
\* hold any one other matching key that exists (SCAN may return a key more
\* than once, and may or may not return a key created during the scan).
\* (With whole, the one reply that passes all that remains and holds each
\* key once.)
DpScanBy(whole) ==
    /\ pc = "dp_scan"
    /\ IF ~healthy
         THEN Complete([call EXCEPT !.ok = FALSE], JNum(0))
         ELSE \E visit \in {call.remaining}
                          \cup (IF whole THEN {} ELSE {{k} : k \in call.remaining}) :
              \E extra \in {{}}
                          \cup (IF whole THEN {} ELSE {{k} : k \in (DOMAIN store) \ visit}) :
                LET fullPattern == generateKey(call.key, <<>>, call.svc.namespace)
                    keys == {k \in (visit \cup extra) \cap DOMAIN store :
                                GlobMatch(fullPattern, k)}
                    c2 == [call EXCEPT !.remaining = call.remaining \ visit,
                               !.keysToDelete = call.keysToDelete \o SeqOf(keys)]
                IN IF c2.remaining # {}
                     THEN /\ pc' = "dp_scan"
                          /\ call' = c2
                          /\ UNCHANGED last
                   ELSE IF Len(c2.keysToDelete) > 0
                     THEN /\ pc' = "dp_del"
                          /\ call' = c2
                          /\ UNCHANGED last
                   ELSE Complete(c2, JNum(0))
    /\ UNCHANGED <<store, now, healthy, tagged, nops, reqs, client>>

DpScan == DpScanBy(FALSE)

\* Variant of batchOf whose slice takes the element at its end index too.
batchOfInclusive(keysToDelete, i) ==
    Sub(keysToDelete, i + 1, Min(i + batchSize + 1, Len(keysToDelete)))

\* keysToDelete.slice(i, i + batchSize), i counting from 0.
batchOf(keysToDelete, i) ==
    Sub(keysToDelete, i + 1, Min(i + batchSize, Len(keysToDelete)))

\* await this.redis.del(...batch) for the batch at index i.  `batches`
\* keeps the batches of the DEL commands issued.
DpDel ==
    /\ pc = "dp_del"
    /\ LET batch == batchOf(call.keysToDelete, call.i)
           s2 == IF healthy THEN cmdDEL(store, Range(batch)) ELSE store
           c2 == [call EXCEPT !.i = call.i + batchSize,
                      !.total = call.total + Len(batch),
                      !.batches = Append(call.batches, batch),
                      !.removed = call.removed \cup ((DOMAIN store) \ (DOMAIN s2)),
                      !.changed = call.changed \cup Changed(store, s2),
                      !.ok = call.ok /\ healthy]
       IN /\ store' = s2
          /\ tagged' = Retag(tagged, s2)
          /\ IF ~healthy THEN Complete(c2, JNum(0))
             ELSE IF c2.i < Len(c2.keysToDelete)
               THEN /\ pc' = "dp_del"
                    /\ call' = c2
                    /\ UNCHANGED last
             ELSE Complete(c2, JNum(c2.total))
    /\ UNCHANGED <<now, healthy, nops, reqs, client>>

\* CacheService.getOrSet(key, fetcher, ttl, tags): the call, up to the
\* answer of `await this.get(key)`.
GetOrSet(svc, key, ttl, tags) ==
    /\ pc = "idle"
    /\ nops < MaxOps
    /\ nops' = nops + 1
    /\ LET cached == IF healthy THEN getValue(store, svc, key, <<>>) ELSE JNull
           c == [NoCall EXCEPT !.op = "getOrSet", !.svc = svc, !.key = key, !.ttl = ttl,
                    !.tags = tags, !.ok = healthy, !.time0 = now,
                    !.getFailed = ~healthy \/ getRaises(store, svc, key, <<>>)]
       IN IF cached # JNull
            THEN Complete(c, cached)
            ELSE /\ pc' = "gos_fetch"
                 /\ call' = c
                 /\ UNCHANGED last
    /\ UNCHANGED <<store, now, healthy, tagged, reqs, client>>

\* `const data = await fetcher()`: the fetcher resolves with a value, or
\* rejects and control passes to the catch block.
GosFetch(outcomes) ==
    /\ pc = "gos_fetch"
    /\ \E out \in outcomes :
        /\ pc' = IF out = Raised THEN "gos_catch" ELSE "gos_set"
        /\ call' = [call EXCEPT !.fetches = call.fetches + 1, !.data = out,
                                !.fails = IF out = Raised THEN 1 ELSE 0]
    /\ UNCHANGED <<store, now, healthy, last, tagged, nops, reqs, client>>

\* `await this.set(key, data, ttl, tags); return data`.
GosSet ==
    /\ pc = "gos_set"
    /\ LET svc == call.svc
           fullKey == generateKey(call.key, <<>>, svc.namespace)
           applied == ~setThrows(call.data) /\ healthy
           s2 == IF applied
                   THEN setPipeline(store, now, svc, call.key, call.data, call.ttl, call.tags)
                   ELSE store
           c2 == [call EXCEPT !.removed = call.removed \cup ((DOMAIN store) \ (DOMAIN s2)),
                      !.changed = call.changed \cup Changed(store, s2),
                      !.ok = call.ok /\ applied, !.setFailed = ~applied]
       IN /\ store' = s2
          /\ tagged' = IF applied
                         THEN Put(Retag(tagged, s2), fullKey,
                                  [ns |-> svc.namespace, tags |-> Range(call.tags)])
                         ELSE tagged
          /\ Complete(c2, call.data)
    /\ UNCHANGED <<now, healthy, nops, reqs, client>>

\* The catch block: `return await fetcher()`.
GosCatch(outcomes) ==
    /\ pc = "gos_catch"
    /\ \E out \in outcomes :
        Complete([call EXCEPT !.fetches = call.fetches + 1, !.data = out,
                              !.fails = call.fails + IF out = Raised THEN 1 ELSE 0], out)
    /\ UNCHANGED <<store, now, healthy, tagged, nops, reqs, client>>

(***************************************************************************)
(* Inputs.                                                                 *)
(***************************************************************************)
NsA == <<"a">>

NsAB == <<"a", ":", "b">>

SvcA == Service(NsA, DefaultTTL)

SvcAB == Service(NsAB, DefaultTTL)

KeyK == <<"k">>

KeyJ == <<"j">>

KeyBK == <<"b", ":", "k">>

TagT == <<"t">>

TagU == <<"u">>

\* The key that, in its namespace, is also the key of tag t's set.
KeyTagT == TagPrefix \o TagT

TagLists == {<<>>, <<TagT>>, <<TagU>>, <<TagT, TagU>>}

\* ttl arguments, in seconds.
TTLs == {1, 2}

Init ==
    /\ store = [k \in {} |-> StringEntry(<<>>, 0)]
    /\ now = 0
    /\ healthy = TRUE
    /\ pc = "idle"
    /\ call = NoCall
    /\ last = NoRecord
    /\ tagged = [k \in {} |-> [ns |-> <<>>, tags |-> {}]]
    /\ nops = 0
    /\ reqs = <<>>
    /\ client = NoClient

(***************************************************************************)
(* SpecTags: sets with tags, expiry and tag invalidation in one namespace. *)
(* SpecTagKeys: the same, one of the keys being the key of tag t's set.    *)
(***************************************************************************)
NextTagsOn(keys) ==
    \/ \E key \in keys, ttl \in TTLs, tags \in TagLists :
            Set(SvcA, key, JNum(1), ttl, tags)
    \/ \E tags \in TagLists : InvalidateByTags(SvcA, tags)
    \/ IbtSmembers
    \/ IbtExec
    \/ Tick

NextTags == NextTagsOn({KeyK, KeyJ})

SpecTags == Init /\ [][NextTags]_vars

NextTagKeys == NextTagsOn({KeyK, KeyTagT})

SpecTagKeys == Init /\ [][NextTagKeys]_vars

\* The last completed call is an invalidateByTags([t]) of one tag that ran
\* alone (no other call or expiry changed the keyspace under it) with the
\* store up.
IbtOneTagDone ==
    /\ last.op = "invalidateByTags"
    /\ Len(last.tags) = 1
    /\ last.ok
    /\ last.quiet

\* No entry was stored under the key of one of the call's tag sets.
TagKeysFree ==
    \A i \in 1..Len(last.tags) : tagKeyOf(last.tags[i], last.ns) \notin DOMAIN last.tagged0

\* C2 (as claimed): once invalidateByTags([t]) has completed, no live entry
\* that was stored with tag t is left in the store.
C2_TaggedEntriesRemoved ==
    IbtOneTagDone =>
        \A k \in DOMAIN tagged :
            ~(tagged[k].ns = last.ns /\ last.tags[1] \in tagged[k].tags)

\* C3 (as claimed): invalidateByTags([t]) leaves present and unchanged every
\* live entry whose current value was stored with a tag list that does not
\* contain t, also one that was stored with tag t earlier.
C3_DisjointTagEntriesRemain ==
    (IbtOneTagDone /\ TagKeysFree) =>
        \A k \in DOMAIN last.tagged0 :
            ~(last.tagged0[k].ns = last.ns /\ last.tags[1] \in last.tagged0[k].tags)
                => k \notin last.changed

\* C3 (amended): invalidateByTags([t]) leaves present and unchanged every
\* live entry whose key is not a member of t's tag set when the call reads
\* it.
C3_NonMembersRemain ==
    IbtOneTagDone =>
        \A k \in DOMAIN last.tagged0 : k \notin last.read => k \notin last.changed

\* C3 witness: an invalidateByTags([t]) that removed a member and left a
\* live entry that is no member of t's tag set.
C3_Witness ==
    /\ IbtOneTagDone
    /\ last.removed \cap DOMAIN last.tagged0 # {}
    /\ \E k \in DOMAIN last.tagged0 : k \notin last.read /\ k \in DOMAIN store

\* The last completed call is the second of two invalidateByTags([t]) calls
\* on the same service with no call in between.
IbtRepeated ==
    /\ IbtOneTagDone
    /\ last.pred.op = "invalidateByTags"
    /\ last.pred.tags = last.tags
    /\ last.pred.ok
    /\ last.pred.quiet

\* C4: a second invalidateByTags([t]) right after a first one removes
\* nothing and returns 0.
C4_SecondInvalidationRemovesNothing ==
    IbtRepeated => last.ret = JNum(0) /\ last.changed = {}

\* C4 witness: the second of two invalidations, the first of which removed
\* an entry.
C4_Witness == IbtRepeated /\ last.pred.ret = JNum(1)

\* C5 (as claimed): invalidateByTags(tags) returns the number of cache
\* entries it removed (tag sets not counted).
C5_ReturnsEntriesRemoved ==
    (last.op = "invalidateByTags" /\ last.ok /\ last.quiet) =>
        last.ret = JNum(Cardinality(last.removed \cap DOMAIN last.tagged0))

(***************************************************************************)
(* SpecPattern: two services on one store, the namespace of one a prefix   *)
(* of the other's; sets, expiry, del and pattern deletion.                 *)
(***************************************************************************)
Patterns == {<<"*">>, <<"k">>, <<"?">>}

NextPattern ==
    \/ \E key \in {KeyK, KeyJ}, ttl \in TTLs : Set(SvcA, key, JNum(1), ttl, <<>>)
    \/ \E ttl \in TTLs : Set(SvcAB, KeyK, JNum(2), ttl, <<>>)
    \/ \E key \in {KeyK, KeyJ} : Del(SvcA, key)
    \/ \E pattern \in Patterns : DelPattern(SvcA, pattern)
    \/ DpScan
    \/ DpDel
    \/ Tick

SpecPattern == Init /\ [][NextPattern]_vars

\* The last completed call is a delPattern that ran with the store up.
DelPatternDone ==
    /\ last.op = "delPattern"
    /\ last.ok

\* C6 (as claimed): after a delPattern(p) that ran with no concurrent writer,
\* an entry of the service's namespace that was there before the call has
\* been removed exactly if its key matches p, and every entry of another
\* namespace is unchanged.
C6_PatternDeletionExact ==
    (DelPatternDone /\ last.quiet) =>
        \A k \in DOMAIN last.tagged0 :
            IF last.tagged0[k].ns = last.ns
                THEN (k \in last.removed) <=>
                        GlobMatch(generateKey(last.key, <<>>, last.ns), k)
                ELSE k \notin last.changed

\* C7 (as claimed): delPattern(p) returns the number of distinct keys that
\* the call deleted.
C7_ReturnsKeysDeleted ==
    DelPatternDone => last.ret = JNum(Cardinality(last.removed))

(***************************************************************************)
(* SpecGetOrSet: getOrSet calls on one service with a fetcher that returns *)
(* a number, null or undefined, or fails; expiry; the store going down and *)
(* coming back.  One of the keys is also the key of tag t's set.           *)
(***************************************************************************)
\* What one invocation of the fetcher can end in.
Outcomes == {JNum(1), JNull, JUndefined, Raised}

\* ttl arguments of getOrSet; 0 stands for an omitted ttl.
GosTTLs == {0, 1}

\* A getOrSet call of SpecGetOrSet.
GetOrSetCall(svc, key, ttl, tags) ==
    /\ nops < MaxGetOrSets
    /\ GetOrSet(svc, key, ttl, tags)

NextGetOrSet ==
    \/ \E ttl \in GosTTLs : GetOrSetCall(SvcA, KeyK, ttl, <<TagT>>)
    \/ GetOrSetCall(SvcA, KeyTagT, 1, <<>>)
    \/ GosFetch(Outcomes)
    \/ GosSet
    \/ GosCatch(Outcomes)
    \/ Tick
    \/ Outage
    \/ Recover

SpecGetOrSet == Init /\ [][NextGetOrSet]_vars

\* The last completed call is a getOrSet that looked its key up, with the
\* store up, before the entry written by the getOrSet completed just before
\* it, on the same key and with the store up, had expired; that earlier
\* call invoked the fetcher once.
GetOrSetRepeated ==
    /\ last.op = "getOrSet"
    /\ ~last.getFailed
    /\ last.pred.op = "getOrSet"
    /\ last.pred.ok
    /\ last.pred.fetches = 1
    /\ last.pred.val # Raised
    /\ last.time0 < last.pred.time + expiryOf(SvcA, last.pred.ttl)

\* C8 (as claimed): a getOrSet that follows, within the TTL, a getOrSet on
\* the same key that invoked the fetcher returns the value that call
\* stored and does not invoke the fetcher, whatever the fetcher returned.
C8_FetcherRunsOnce ==
    GetOrSetRepeated => last.fetches = 0 /\ last.ret = last.pred.ret

\* The same holds where the fetcher returned neither null nor undefined.
GetOrSetHitsStoredValue ==
    (GetOrSetRepeated /\ last.pred.val \notin {JNull, JUndefined}) =>
        last.fetches = 0 /\ last.ret = last.pred.ret

\* The last completed call is a getOrSet whose lookup or whose write failed
\* and whose fetcher did not fail.
GetOrSetDegraded ==
    /\ last.op = "getOrSet"
    /\ last.getFailed \/ last.setFailed
    /\ last.fails = 0

\* C9 (as claimed): a getOrSet whose lookup or write fails returns the
\* fetcher's result, does not raise, and leaves nothing cached.
C9_DegradesToFetcher ==
    GetOrSetDegraded =>
        /\ last.fetches = 1
        /\ last.ret = last.val
        /\ last.ret # Raised
        /\ last.changed = {}

\* C9 (amended): a getOrSet whose lookup or write fails invokes the fetcher
\* once, returns its result and does not raise; it leaves nothing cached
\* when the write fails.
C9_DegradesToFetcherUncachedOnWriteFailure ==
    GetOrSetDegraded =>
        /\ last.fetches = 1
        /\ last.ret = last.val
        /\ last.ret # Raised
        /\ last.setFailed => last.changed = {}

\* C9 witness: a getOrSet that returned the fetcher's number after both its
\* lookup and its write had failed with the store down.
C9_Witness ==
    /\ GetOrSetDegraded
    /\ last.getFailed
    /\ last.setFailed
    /\ last.ret = JNum(1)

\* C10 (as claimed): a getOrSet whose fetcher fails after a miss fails with
\* that error: it returns no value and caches nothing.
C10_FetcherFailurePropagates ==
    (last.op = "getOrSet" /\ last.fails >= 1) =>
        last.ret = Raised /\ last.changed = {}

(***************************************************************************)
(* SpecRoundTrip: set and get of values of every kind on one key, the      *)
(* strings one code unit short of the compressed path and the shortest on  *)
(* it, in code units of one, two and three UTF-8 bytes.                    *)
(***************************************************************************)
\* The string of n code units c.
Repeat(c, n) == [i \in 1..n |-> c]

\* Code units: x, e with acute accent, the euro sign.
Units == {120, 233, 8364}

\* A string of this many code units serializes to compressionThreshold + 1.
LongLen == compressionThreshold - 1

Values ==
    {JNull, JBool(TRUE), JBool(FALSE), JNum(0), JNum(1024), JStr(<<>>),
     JStr(Marker), JStr(Repeat(120, LongLen - 1))}
        \cup {JStr(Repeat(c, LongLen)) : c \in Units}

\* The calls of SpecRoundTrip.
RoundTripSet(value, ttl) ==
    /\ nops < MaxRoundTripOps
    /\ Set(SvcA, KeyK, value, ttl, <<>>)

RoundTripGet ==
    /\ nops < MaxRoundTripOps
    /\ Get(SvcA, KeyK)

NextRoundTrip ==
    \/ \E value \in Values, ttl \in TTLs : RoundTripSet(value, ttl)
    \/ RoundTripGet
    \/ Tick

SpecRoundTrip == Init /\ [][NextRoundTrip]_vars

\* The last completed call is a get that immediately follows a set of the
\* same key with a ttl of at least 1 on the same service, the store up.
GetAfterSet ==
    /\ last.op = "get"
    /\ last.ok
    /\ last.pred.op = "set"
    /\ last.pred.ok
    /\ last.pred.ttl >= 1
    /\ last.time = last.pred.time

errINCR(s, k) ==
    Has(s, k) /\ (s[k].kind # "string" \/ JSONparse(s[k].data).t # "num")

\* Variant of replyINCR that counts an absent key from -1.
replyINCRFromBelow(s, k) == IF Has(s, k) THEN JSONparse(s[k].data).n + 1 ELSE 0

replyINCR(s, k) == IF Has(s, k) THEN JSONparse(s[k].data).n + 1 ELSE 1

cmdINCR(s, k) ==
    IF errINCR(s, k) THEN s
    ELSE Put(s, k, StringEntry(Digits(replyINCR(s, k)), IF Has(s, k) THEN s[k].exp ELSE 0))

\* TTL key: -2 for an absent key, -1 for a key without expiry.
replyTTL(s, t, k) ==
    IF ~Has(s, k) THEN 0 - 2 ELSE IF s[k].exp = 0 THEN 0 - 1 ELSE s[k].exp - t

\* CacheService.incr.
Incr(svc, key) ==
    /\ nops < MaxOps
    /\ nops' = nops + 1
    /\ LET fullKey == generateKey(key, <<>>, svc.namespace)
           done == healthy /\ ~errINCR(store, fullKey)
       IN /\ store' = IF done THEN cmdINCR(store, fullKey) ELSE store
          /\ tagged' = Retag(tagged, store')
          /\ call' = Disturb(call, store, store')
          /\ last' = [NoRecord EXCEPT !.op = "incr", !.ns = svc.namespace, !.key = key,
                         !.ret = JNum(IF done THEN replyINCR(store, fullKey) ELSE 0),
                         !.time = now, !.changed = Changed(store, store'),
                         !.ok = done, !.quiet = (pc = "idle")]
    /\ UNCHANGED <<now, healthy, pc, reqs, client>>

\* CacheService.exists.
Exists(svc, key) ==
    /\ nops < MaxOps
    /\ nops' = nops + 1
    /\ last' = [NoRecord EXCEPT !.op = "exists", !.ns = svc.namespace, !.key = key,
                   !.ret = JBool(healthy /\ Has(store, generateKey(key, <<>>, svc.namespace))),
                   !.time = now, !.ok = healthy, !.quiet = (pc = "idle")]
    /\ UNCHANGED <<store, now, healthy, pc, call, tagged, reqs, client>>

\* CacheService.ttl.
Ttl(svc, key) ==
    /\ nops < MaxOps
    /\ nops' = nops + 1
    /\ last' = [NoRecord EXCEPT !.op = "ttl", !.ns = svc.namespace, !.key = key,
                   !.ret = JNum(IF healthy
                                  THEN replyTTL(store, now, generateKey(key, <<>>, svc.namespace))
                                  ELSE 0 - 1),
                   !.time = now, !.ok = healthy, !.quiet = (pc = "idle")]
    /\ UNCHANGED <<store, now, healthy, pc, call, tagged, reqs, client>>

\* CacheService.healthCheck.
HealthCheck(svc) ==
    /\ nops < MaxOps
    /\ nops' = nops + 1
    /\ last' = [NoRecord EXCEPT !.op = "healthCheck", !.ns = svc.namespace,
                   !.ret = JBool(healthy), !.time = now, !.ok = healthy,
                   !.quiet = (pc = "idle")]
    /\ UNCHANGED <<store, now, healthy, pc, call, tagged, reqs, client>>

(***************************************************************************)
(* SpecNamespaces: two services on one store, the namespace of one a       *)
(* prefix of the other's; set, del, incr and pattern deletion by the       *)
(* first, set by the second.                                               *)
(***************************************************************************)
NextNamespaces ==
    \/ \E key \in {KeyK, KeyBK}, ttl \in TTLs : Set(SvcA, key, JNum(1), ttl, <<>>)
    \/ \E ttl \in TTLs : Set(SvcAB, KeyK, JNum(2), ttl, <<>>)
    \/ \E key \in {KeyK, KeyBK} : Del(SvcA, key)
    \/ \E key \in {KeyK, KeyBK} : Incr(SvcA, key)
    \/ DelPattern(SvcA, <<"*">>)
    \/ DpScan
    \/ DpDel
    \/ Tick

SpecNamespaces == Init /\ [][NextNamespaces]_vars

\* What get and exists of a service answer for the keys k and b:k.
Observed(s, svc) ==
    [key \in {KeyK, KeyBK} |->
        <<getValue(s, svc, key, <<>>), Has(s, generateKey(key, <<>>, svc.namespace))>>]

\* The namespace of the service whose call changes the keyspace in a step.
ActorNs == IF last' # last THEN last'.ns ELSE call.svc.namespace

\* C11 (as claimed): a step in which a call of one service changes the
\* keyspace changes nothing of what get and exists answer on a service of
\* another namespace.
C11_NamespaceIsolation ==
    [][(store' # store /\ now' = now) =>
            \A svc \in {SvcA, SvcAB} :
                svc.namespace # ActorNs => Observed(store', svc) = Observed(store, svc)]_vars

(***************************************************************************)
(* SpecOutage: every operation of one service on one key and one tag,      *)
(* with the store going down and coming back.                              *)
(***************************************************************************)
NextOutage ==
    \/ Set(SvcA, KeyK, JNum(1), 1, <<TagT>>)
    \/ Get(SvcA, KeyK)
    \/ Del(SvcA, KeyK)
    \/ Incr(SvcA, KeyK)
    \/ Exists(SvcA, KeyK)
    \/ Ttl(SvcA, KeyK)
    \/ HealthCheck(SvcA)
    \/ InvalidateByTags(SvcA, <<TagT>>)
    \/ IbtSmembers
    \/ IbtExec
    \/ DelPattern(SvcA, <<"*">>)
    \/ DpScan
    \/ DpDel
    \/ Outage
    \/ Recover
    \/ Tick

SpecOutage == Init /\ [][NextOutage]_vars

\* The neutral value C14 names for each operation.
Neutral(op) ==
    CASE op = "get" -> JNull
      [] op \in {"set", "del", "exists", "healthCheck"} -> JBool(FALSE)
      [] OTHER -> JNum(0)

\* C14 (as claimed): an operation one of whose store commands failed
\* returns its neutral value: null for get, false for set, del, exists and
\* healthCheck, 0 for invalidateByTags, delPattern, ttl and incr.
C14_FailSoft ==
    (last.op # "none" /\ ~last.ok) => last.ret = Neutral(last.op)

\* The same holds of the operations other than set, invalidateByTags and ttl.
FailSoftButSetTagsTtl ==
    (last.op \notin {"none", "set", "invalidateByTags", "ttl"} /\ ~last.ok) =>
        last.ret = Neutral(last.op)

(***************************************************************************)
(* The default key generator in full: requests with a query and a user.    *)
(* A query is req.query as a sequence of [k, v] pairs of strings with      *)
(* distinct keys, in the order Object.keys yields them.  A user is         *)
(* req.user?.id as a JavaScript value, undefined standing for no user.     *)
(***************************************************************************)
\* The characters of the model's keys in the order of their code units.
KeyAlphabet == <<"&", "/", "0", "1", "2", ":", "=", "a", "b", "e", "p", "q", "r", "s", "u">>

CharRank(c) == CHOOSE i \in 1..Len(KeyAlphabet) : KeyAlphabet[i] = c

\* a < b as Array.prototype.sort orders strings: by code units, a proper
\* prefix first.
RECURSIVE StrLess(_, _)
StrLess(a, b) ==
    IF b = <<>> THEN FALSE
    ELSE IF a = <<>> THEN TRUE
    ELSE IF Head(a) = Head(b) THEN StrLess(Tail(a), Tail(b))
    ELSE CharRank(Head(a)) < CharRank(Head(b))

\* Object.keys(req.query).sort(), each key kept with its value.
RECURSIVE SortByKey(_)
SortByKey(query) ==
    IF query = <<>> THEN <<>>
    ELSE LET i == CHOOSE i \in 1..Len(query) :
                      \A j \in 1..Len(query) : j # i => StrLess(query[i].k, query[j].k)
             rest == [j \in 1..(Len(query) - 1) |-> IF j < i THEN query[j] ELSE query[j + 1]]
         IN <<query[i]>> \o SortByKey(rest)

\* .map((key) => `${key}=${req.query[key]}`).join('&')
RECURSIVE JoinPairs(_)
JoinPairs(pairs) ==
    IF pairs = <<>> THEN <<>>
    ELSE Head(pairs).k \o <<"=">> \o Head(pairs).v
         \o (IF Len(pairs) > 1 THEN <<"&">> \o JoinPairs(Tail(pairs)) ELSE <<>>)

queryStringOf(query) == JoinPairs(SortByKey(query))

\* crypto.createHash('md5').update(queryString).digest('hex').  The digest
\* is kept as a mark on the text digested: equal texts have equal digests
\* and the model gives MD5 no collisions of its own.
md5Hex(text) == <<"md5">> \o text

\* The decimal text of a number, in the characters of keys.
RECURSIVE DecimalText(_)
DecimalText(n) ==
    LET d == <<"0", "1", "2", "3", "4", "5", "6", "7", "8", "9">>
    IN IF n < 10 THEN <<d[n + 1]>> ELSE DecimalText(n \div 10) \o <<d[(n % 10) + 1]>>

\* Whether `(req as any).user?.id` is truthy.
truthyId(id) == (id.t = "num" /\ id.n # 0) \/ (id.t = "str" /\ id.s # <<>>)

\* `user:${(req as any).user.id}`
userPart(id) == <<"u", "s", "e", "r", ":">> \o (IF id.t = "num" THEN DecimalText(id.n) ELSE id.s)

\* The default key generator: parts.join(':') of the method, the path, the
\* digest of a non-empty query string, and the user part when includeAuth
\* is set and the user's id is truthy.
requestKey(method, path, query, includeAuth, id) ==
    method \o Colon \o path
    \o (IF queryStringOf(query) # <<>> THEN Colon \o md5Hex(queryStringOf(query)) ELSE <<>>)
    \o (IF includeAuth /\ truthyId(id) THEN Colon \o userPart(id) ELSE <<>>)

(***************************************************************************)
(* The Express middleware, cacheMiddleware(redisClient, config).  A        *)
(* request is a record of reqs: what the middleware installed on it, how   *)
(* often the downstream handler ran, and the response the client got.      *)
(* The requests of Arrive carry no query string and no user, so the        *)
(* default key generator yields method ':' path for them; those of         *)
(* ArriveWith carry both.  autoCache.tags is a static list;                *)
(* autoCache.condition is absent ("none") or a predicate that accepts or   *)
(* rejects the requests of the route.  An invalidate config names one kind *)
(* of list: tags, patterns or keys, static, or a resolver function that    *)
(* throws.                                                                 *)
(***************************************************************************)
MaxReqs == 3

\* The number of requests that may be waiting for their handler's answer at
\* one time.
MaxOpen == 1

GET == <<"G", "E", "T">>
POST == <<"P", "O", "S", "T">>
PUT == <<"P", "U", "T">>
DELETE == <<"D", "E", "L", "E", "T", "E">>
PATCH == <<"P", "A", "T", "C", "H">>
HEAD == <<"H", "E", "A", "D">>

\* const isMutationRequest = ['POST', 'PUT', 'DELETE', 'PATCH'].includes(req.method)
isMutationRequest(method) == method \in {POST, PUT, DELETE, PATCH}

\* res.statusCode >= 200 && res.statusCode < 300
is2xx(statusCode) == statusCode >= 200 /\ statusCode < 300

\* The default key generator: [req.method, req.path].join(':').
defaultKey(method, path) == method \o Colon \o path

\* The invalidate option: kind is "tags", "patterns", "keys", "throws" (a
\* resolver function that throws) or "empty" (no list at all).
Invalidate(enabled, kind, list, afterResponse) ==
    [enabled |-> enabled, kind |-> kind, list |-> list, afterResponse |-> afterResponse]

NoInvalidate == Invalidate(TRUE, "empty", <<>>, FALSE)

\* The config of one cacheMiddleware with its defaults filled in.
Config(strategy, ttl, namespace, enabled, tags, invalidate) ==
    [strategy |-> strategy, ttl |-> ttl, namespace |-> namespace,
     autoCache |-> [enabled |-> enabled, tags |-> tags, condition |-> "none",
                    includeAuth |-> FALSE],
     invalidate |-> invalidate]

\* The config cfg with autoCache.condition set.
WithCondition(cfg, condition) == [cfg EXCEPT !.autoCache.condition = condition]

\* The config cfg with autoCache.includeAuth set.
WithAuth(cfg) == [cfg EXCEPT !.autoCache.includeAuth = TRUE]

\* Whether autoCache.condition(req) throws.  The call is outside the try
\* block, so the middleware's promise rejects there and then.
conditionThrows(autoCache) == autoCache.condition = "throws"

\* Variant of nextsAfterLookup that goes on to the handler after a hit.
nextsAfterLookupAlways(cachedData) == 1

\* The next() calls after the lookup: none after `return res.json(cachedData)`
\* on a hit, one (`return next()`) on a miss and in the catch block.
nextsAfterLookup(cachedData) == IF cachedData # Raised /\ cachedData # JNull THEN 0 ELSE 1

\* Variant of shouldCache that never asks the condition.
shouldCacheAlways(autoCache) == TRUE

\* const shouldCache = autoCache.condition ? autoCache.condition(req) : true
shouldCache(autoCache) == autoCache.condition # "rejects"

\* A request as it enters the middleware.
NewReq ==
    [method |-> <<>>, path |-> <<>>, query |-> <<>>, user |-> JUndefined,
     cfg |-> Config("auto", 0, <<>>, TRUE, <<>>, NoInvalidate),
     st |-> "received", cacheKey |-> <<>>, xcache |-> "none", hook |-> "none",
     handled |-> 0, statusCode |-> 0, body |-> JUndefined, via |-> "none",
     emitted |-> FALSE, tasks |-> 0, finished |-> FALSE,
     \* history
     at |-> 0, lookupFailed |-> FALSE, storedAt |-> 0, quiet |-> TRUE,
     stored |-> FALSE, invoked |-> 0, early |-> FALSE, logged |-> 0, unhandled |-> FALSE,
     nexts |-> 0, cached |-> JUndefined, produced |-> JUndefined]

\* Whether request q has its response and every invalidation it set off has
\* run to its end.
Settled(q) ==
    /\ q.emitted
    /\ q.tasks = 0
    /\ q.hook = "finish" => q.finished
    /\ pc = "idle"

\* Variant of tasksAtInstall that schedules an invalidation as the hooks
\* are installed.
tasksAtInstallEager(invalidate) == 1

\* Number of performInvalidation tasks the middleware has scheduled by the
\* time it calls next(): none, the hooks only wrap res.json and res.send.
tasksAtInstall(invalidate) == 0

\* Variant of isPassThrough that passes only the strategy none through.
isPassThroughNoneOnly(strategy) == strategy = "none"

\* if (strategy === 'none' || strategy === 'manual') return next()
isPassThrough(strategy) == strategy \in {"none", "manual"}

\* Variant of lookup that answers with a value while the store is down.
lookupAnswersWhenDown(s, up, svc, cacheKey) ==
    IF up THEN getValue(s, svc, cacheKey, <<>>) ELSE JNum(0)

\* The lookup of the auto-cache branch: `await req.cache.get(cacheKey)`.
lookup(s, up, svc, cacheKey) == IF up THEN getValue(s, svc, cacheKey, <<>>) ELSE JNull

\* The middleware function, from its entry to next() or to the response of
\* a hit.  The GET command of the lookup is the only store command.
ArriveOpen(method, path, query, id, cfg, maxOpen) ==
    /\ Len(reqs) < MaxReqs
    /\ Cardinality({i \in 1..Len(reqs) : reqs[i].st = "handler"}) < maxOpen
    /\ LET svc == Service(cfg.namespace, cfg.ttl)
           cacheKey == requestKey(method, path, query, cfg.autoCache.includeAuth, id)
           cachedData == lookup(store, healthy, svc, cacheKey)
           r0 == [NewReq EXCEPT !.method = method, !.path = path, !.query = query,
                     !.user = id, !.cfg = cfg,
                     !.at = now,
                     !.quiet = \A i \in 1..Len(reqs) : Settled(reqs[i])]
           r1 == IF isPassThrough(cfg.strategy)
                   THEN [r0 EXCEPT !.st = "handler", !.nexts = 1]
                 ELSE IF method = GET /\ cfg.autoCache.enabled /\ conditionThrows(cfg.autoCache)
                   THEN [r0 EXCEPT !.st = "rejected"]
                 ELSE IF method = GET /\ cfg.autoCache.enabled /\ shouldCache(cfg.autoCache)
                   THEN LET r2 == [r0 EXCEPT !.cacheKey = cacheKey,
                                      !.lookupFailed = ~healthy \/ getRaises(store, svc, cacheKey, <<>>),
                                      !.cached = cachedData,
                                      !.nexts = nextsAfterLookup(cachedData)]
                        IN IF cachedData = Raised
                             THEN [r2 EXCEPT !.xcache = "ERROR", !.st = "handler"]
                           ELSE IF cachedData # JNull
                             THEN [r2 EXCEPT !.xcache = "HIT", !.st = "sent", !.statusCode = 200,
                                      !.body = cachedData, !.via = "json", !.emitted = TRUE]
                           ELSE [r2 EXCEPT !.xcache = "MISS", !.hook = "cache", !.st = "handler"]
                 ELSE IF isMutationRequest(method) /\ cfg.invalidate.enabled
                   THEN [r0 EXCEPT !.hook = IF cfg.invalidate.afterResponse
                                               THEN "afterResponse" ELSE "finish",
                            !.tasks = tasksAtInstall(cfg.invalidate), !.st = "handler",
                            !.nexts = 1]
                 ELSE [r0 EXCEPT !.st = "handler", !.nexts = 1]
       IN reqs' = Append(reqs, r1)
    /\ UNCHANGED <<store, now, healthy, pc, call, last, tagged, nops, client>>

\* The arrival of a request while fewer than MaxOpen requests await their
\* handler.
ArriveWith(method, path, query, id, cfg) ==
    ArriveOpen(method, path, query, id, cfg, MaxOpen)

\* The arrival of ArriveWith for a request without a query string and without a user.
Arrive(method, path, cfg) == ArriveWith(method, path, <<>>, JUndefined, cfg)

\* Variant of afterResponseTasks that schedules whatever the status.
afterResponseTasksAnyStatus(via, statusCode) ==
    IF via = "json" THEN 2
    ELSE IF via = "send" THEN 1
    ELSE 0

\* Number of performInvalidation tasks the afterResponse hooks hand to
\* setImmediate for one response: Express's res.json ends in this.send, so
\* a response sent with res.json passes both hooks; res.end passes none.
afterResponseTasks(via, statusCode) ==
    IF ~is2xx(statusCode) THEN 0
    ELSE IF via = "json" THEN 2
    ELSE IF via = "send" THEN 1
    ELSE 0

\* Variant of cachesResponse that stores the payload whatever the status.
cachesResponseAnyStatus(hook, via, statusCode) == hook = "cache" /\ via = "json"

\* Whether the res.json installed on a miss stores the payload.
cachesResponse(hook, via, statusCode) == hook = "cache" /\ via = "json" /\ is2xx(statusCode)

\* The downstream handler runs and answers with statusCode and body through
\* res.json, res.send or res.end.  On a miss the overridden res.json stores
\* the payload of a 2xx response (the commands of set are sent before any
\* other request is served), then the response is emitted.
Handle(r, statusCode, body, via) ==
    /\ r \in 1..Len(reqs)
    /\ reqs[r].st = "handler"
    /\ LET q == reqs[r]
           svc == Service(q.cfg.namespace, q.cfg.ttl)
           fullKey == generateKey(q.cacheKey, <<>>, svc.namespace)
           caches == cachesResponse(q.hook, via, statusCode)
           applied == caches /\ healthy /\ ~setThrows(body)
           s2 == IF applied
                   THEN setPipeline(store, now, svc, q.cacheKey, body, q.cfg.ttl, q.cfg.autoCache.tags)
                   ELSE store
       IN /\ store' = s2
          /\ tagged' = IF applied
                         THEN Put(Retag(tagged, store'), fullKey,
                                  [ns |-> svc.namespace, tags |-> Range(q.cfg.autoCache.tags)])
                         ELSE tagged
          /\ call' = Disturb(call, store, store')
          /\ reqs' = [reqs EXCEPT ![r] =
                        [q EXCEPT !.st = "sent", !.handled = q.handled + 1,
                            !.statusCode = statusCode, !.body = body, !.via = via,
                            !.emitted = TRUE,
                            !.tasks = q.tasks + (IF q.hook = "afterResponse"
                                                   THEN afterResponseTasks(via, statusCode)
                                                   ELSE 0),
                            !.stored = applied,
                            !.storedAt = now]]
    /\ UNCHANGED <<now, healthy, pc, last, nops, client>>

\* Variant of onInvalidationError in which the error leaves performInvalidation.
onInvalidationErrorEscapes(q) == [q EXCEPT !.unhandled = TRUE]

\* The catch of performInvalidation: the error is logged.
onInvalidationError(q) == [q EXCEPT !.logged = q.logged + 1]

\* The full keys that `for (const key of keys) req.cache.del(key)` deletes.
invalidatedKeys(keys, namespace) == {generateKey(keys[i], <<>>, namespace) : i \in 1..Len(keys)}

\* performInvalidation for request r, whose record becomes q: the lists are
\* resolved and the calls started.  invalidateByTags and delPattern go on
\* one await per step as the call in flight; the DELs of del are sent at
\* once.  (Of a pattern list the first pattern is run: lists of patterns
\* have one element.)
performInvalidation(r, q) ==
    LET inv == q.cfg.invalidate
        svc == Service(q.cfg.namespace, q.cfg.ttl)
        q1 == [q EXCEPT !.invoked = q.invoked + 1, !.early = q.early \/ ~q.emitted]
    IN IF inv.kind = "throws"
         THEN /\ reqs' = [reqs EXCEPT ![r] = onInvalidationError(q)]
              /\ UNCHANGED <<store, tagged, pc, call>>
       ELSE IF inv.kind = "tags" /\ Len(inv.list) > 0
         THEN /\ pc' = "ibt_smembers"
              /\ call' = [NoCall EXCEPT !.op = "invalidateByTags", !.svc = svc,
                             !.tags = inv.list, !.i = 1]
              /\ reqs' = [reqs EXCEPT ![r] = q1]
              /\ UNCHANGED <<store, tagged>>
       ELSE IF inv.kind = "patterns" /\ Len(inv.list) > 0
         THEN /\ pc' = "dp_scan"
              /\ call' = [NoCall EXCEPT !.op = "delPattern", !.svc = svc,
                             !.key = inv.list[1], !.remaining = DOMAIN store]
              /\ reqs' = [reqs EXCEPT ![r] = q1]
              /\ UNCHANGED <<store, tagged>>
       ELSE IF inv.kind = "keys" /\ Len(inv.list) > 0
         THEN /\ store' = IF healthy
                            THEN cmdDEL(store, invalidatedKeys(inv.list, svc.namespace))
                            ELSE store
              /\ tagged' = Retag(tagged, store')
              /\ reqs' = [reqs EXCEPT ![r] = q1]
              /\ UNCHANGED <<pc, call>>
       ELSE /\ reqs' = [reqs EXCEPT ![r] = q]
            /\ UNCHANGED <<store, tagged, pc, call>>

\* A callback handed to setImmediate by the afterResponse hooks runs.
Immediate(r) ==
    /\ r \in 1..Len(reqs)
    /\ reqs[r].tasks > 0
    /\ pc = "idle"
    /\ performInvalidation(r, [reqs[r] EXCEPT !.tasks = reqs[r].tasks - 1])
    /\ UNCHANGED <<now, healthy, last, nops, client>>

\* The 'finish' event of a response whose request installed the listener.
Finish(r) ==
    /\ r \in 1..Len(reqs)
    /\ reqs[r].hook = "finish"
    /\ reqs[r].emitted
    /\ ~reqs[r].finished
    /\ pc = "idle"
    /\ LET q == [reqs[r] EXCEPT !.finished = TRUE]
       IN IF is2xx(q.statusCode)
            THEN performInvalidation(r, q)
            ELSE /\ reqs' = [reqs EXCEPT ![r] = q]
                 /\ UNCHANGED <<store, tagged, pc, call>>
    /\ UNCHANGED <<now, healthy, last, nops, client>>

(***************************************************************************)
(* SpecAutoCache: GET requests of one route under the auto strategy, with  *)
(* time passing.                                                           *)
(***************************************************************************)
PathP == <<"/", "p">>

\* cacheMiddleware(redis, { ttl, autoCache: { tags: ['t'] } })
GetRoute(ttl) == Config("auto", ttl, NsA, TRUE, <<TagT>>, NoInvalidate)

\* What a handler may answer: status, payload and the call that sends it.
Response(statusCode, body, via) == [statusCode |-> statusCode, body |-> body, via |-> via]

Responses ==
    {Response(200, JNum(1), "json"), Response(200, JNull, "json"),
     Response(404, JNum(1), "json"), Response(200, JNum(1), "send")}

NextAutoCache ==
    \/ Arrive(GET, PathP, GetRoute(1))
    \/ \E r \in 1..MaxReqs, a \in Responses : Handle(r, a.statusCode, a.body, a.via)
    \/ Tick

SpecAutoCache == Init /\ [][NextAutoCache]_vars

\* Request j is the GET of request i again, received when every earlier
\* request had been answered, while the entry that i's response was stored
\* under has not expired, and the store answered its lookup.
RepeatsAfterMiss(i, j) ==
    /\ i < j
    /\ j <= Len(reqs)
    /\ reqs[i].xcache = "MISS"
    /\ reqs[i].emitted
    /\ is2xx(reqs[i].statusCode)
    /\ reqs[i].via = "json"
    /\ reqs[i].stored
    /\ reqs[j].quiet
    /\ reqs[j].method = reqs[i].method
    /\ reqs[j].path = reqs[i].path
    /\ reqs[j].cfg = reqs[i].cfg
    /\ reqs[j].at < reqs[i].storedAt + reqs[i].cfg.ttl
    /\ ~reqs[j].lookupFailed

\* C12 (as claimed): the first GET is answered by the handler with X-Cache:
\* MISS, and the same GET repeated after that 2xx response (sent with
\* res.json, within the ttl, the store answering) is answered with X-Cache:
\* HIT and the same body, the handler not running.
C12_HitAfterMiss ==
    /\ (Len(reqs) >= 1 /\ reqs[1].emitted /\ reqs[1].cfg.strategy = "auto") =>
          (reqs[1].xcache = "MISS" /\ reqs[1].handled = 1)
    /\ RepeatsAfterMiss(1, 2) =>
          (reqs[2].xcache = "HIT" /\ reqs[2].body = reqs[1].body /\ reqs[2].handled = 0)

\* The same holds when the handler's payload is not null.
HitAfterMissOfNonNull ==
    (RepeatsAfterMiss(1, 2) /\ reqs[1].body # JNull) =>
        (reqs[2].xcache = "HIT" /\ reqs[2].body = reqs[1].body /\ reqs[2].handled = 0)

(***************************************************************************)
(* SpecInvalidate: a GET route cached under tag t with ttl 2, a POST route *)
(* that invalidates tag t in either timing mode, and another writer that   *)
(* stores key j under tag t with ttl 1.                                    *)
(***************************************************************************)
\* cacheMiddleware(redis, { invalidate: { tags: ['t'], afterResponse } })
PostRoute(afterResponse) ==
    Config("auto", 2, NsA, TRUE, <<>>, Invalidate(TRUE, "tags", <<TagT>>, afterResponse))

\* The handler answers 200 or 404 through res.json.
Answers == {Response(200, JNum(1), "json"), Response(404, JNum(1), "json")}

\* The other writer stores once.
OtherWriter ==
    /\ nops = 0
    /\ Set(SvcA, KeyJ, JNum(1), 1, <<TagT>>)

NextInvalidate ==
    \/ Arrive(GET, PathP, GetRoute(2))
    \/ \E afterResponse \in BOOLEAN : Arrive(POST, PathP, PostRoute(afterResponse))
    \/ \E r \in 1..MaxReqs, a \in Answers : Handle(r, a.statusCode, a.body, a.via)
    \/ \E r \in 1..MaxReqs : Immediate(r)
    \/ \E r \in 1..MaxReqs : Finish(r)
    \/ IbtSmembers
    \/ IbtExec
    \/ OtherWriter
    \/ Tick

SpecInvalidate == Init /\ [][NextInvalidate]_vars

\* Request j is a GET received after the mutating request before it got its
\* 2xx response and its invalidation of tags had run to the end; the
\* requests before that one had been answered and settled when it came in.
GetAfterInvalidation(j) ==
    /\ j \in 2..Len(reqs)
    /\ reqs[j].method = GET
    /\ isMutationRequest(reqs[j - 1].method)
    /\ reqs[j - 1].cfg.invalidate.kind = "tags"
    /\ is2xx(reqs[j - 1].statusCode)
    /\ reqs[j].quiet
    /\ reqs[j - 1].quiet

\* C13 (as claimed): once a mutating request that invalidates tag t has its
\* 2xx response and the invalidation it set off has run, the next GET of
\* the resource cached under tag t reports X-Cache: MISS and goes to the
\* handler, in both timing modes.
C13_MissAfterInvalidation ==
    \A j \in 1..MaxReqs :
        GetAfterInvalidation(j) => (reqs[j].xcache = "MISS" /\ reqs[j].hook = "cache")

\* The same holds as long as no other writer has stored under tag t with a
\* shorter ttl.
MissAfterInvalidationOneTtl ==
    \A j \in 1..MaxReqs :
        (GetAfterInvalidation(j) /\ nops = 0) =>
            (reqs[j].xcache = "MISS" /\ reqs[j].hook = "cache")

(***************************************************************************)
(* SpecLookupError: GET requests of one route under the auto strategy,     *)
(* with the store going down and coming back.                              *)
(***************************************************************************)
NextLookupError ==
    \/ Arrive(GET, PathP, GetRoute(1))
    \/ \E r \in 1..MaxReqs, a \in Answers : Handle(r, a.statusCode, a.body, a.via)
    \/ Outage
    \/ Recover

SpecLookupError == Init /\ [][NextLookupError]_vars

\* C15 (as claimed): a GET whose cache lookup failed carries X-Cache: ERROR
\* and goes to the handler with no interception installed, and its response
\* is not stored.
C15_LookupErrorMarked ==
    \A r \in 1..Len(reqs) :
        reqs[r].lookupFailed =>
            /\ reqs[r].xcache = "ERROR"
            /\ reqs[r].hook = "none"
            /\ ~reqs[r].stored

\* What the middleware does instead: a failed lookup is a miss.
LookupErrorIsMiss ==
    \A r \in 1..Len(reqs) :
        reqs[r].lookupFailed => (reqs[r].xcache = "MISS" /\ reqs[r].hook = "cache")

\* The last part of C15 alone; it fails too, the response of such a request
\* being stored when the store is back by the time the handler answers.
LookupErrorNeverStored ==
    \A r \in 1..Len(reqs) : reqs[r].lookupFailed => ~reqs[r].stored

(***************************************************************************)
(* SpecPassThrough: requests of every method through middlewares of every  *)
(* strategy, with the store going down and coming back.                    *)
(***************************************************************************)
\* cacheMiddleware(redis, { strategy })
StrategyRoute(strategy) ==
    Config(strategy, 1, NsA, TRUE, <<TagT>>, Invalidate(TRUE, "tags", <<TagT>>, FALSE))

\* The methods and the routes they are sent to.
Routes ==
    {[method |-> GET, route |-> GetRoute(1)],
     [method |-> GET, route |-> StrategyRoute("manual")],
     [method |-> GET, route |-> StrategyRoute("none")],
     [method |-> HEAD, route |-> GetRoute(1)],
     [method |-> POST, route |-> StrategyRoute("manual")],
     [method |-> POST, route |-> PostRoute(TRUE)],
     [method |-> POST, route |-> PostRoute(FALSE)]}

\* The number of requests in a behaviour of the specifications that draw
\* their requests from several methods and routes.
MaxRouteReqs == 2

RouteArrive(method, cfg) ==
    /\ Len(reqs) < MaxRouteReqs
    /\ Arrive(method, PathP, cfg)

NextPassThrough ==
    \/ \E cfg \in Routes : RouteArrive(cfg.method, cfg.route)
    \/ \E r \in 1..MaxReqs, a \in Answers : Handle(r, a.statusCode, a.body, a.via)
    \/ \E r \in 1..MaxReqs : Immediate(r)
    \/ \E r \in 1..MaxReqs : Finish(r)
    \/ IbtSmembers
    \/ IbtExec
    \/ Outage
    \/ Recover

SpecPassThrough == Init /\ [][NextPassThrough]_vars

\* The middleware sent no store command for request q that was answered:
\* its lookup, if it made one, failed.
Unserved(q) == q.cacheKey # <<>> => q.lookupFailed

\* C16: a request whose lookup the store did not answer is passed to the
\* handler; the handler runs once for it and the response the client gets
\* is the handler's, never a hit, and nothing escapes unhandled.
C16_OutagePassesThrough ==
    \A r \in 1..Len(reqs) :
        Unserved(reqs[r]) =>
            /\ reqs[r].xcache # "HIT"
            /\ ~reqs[r].unhandled
            /\ reqs[r].st = "handler" => (reqs[r].handled = 0 /\ ~reqs[r].emitted)
            /\ reqs[r].st # "handler" =>
                  (reqs[r].st = "sent" /\ reqs[r].handled = 1 /\ reqs[r].emitted)

\* A GET under the auto strategy arrived with the store down and has the
\* handler's response.
C16_Witness ==
    \E r \in 1..Len(reqs) :
        /\ reqs[r].lookupFailed
        /\ reqs[r].st = "sent"
        /\ reqs[r].handled = 1
        /\ ~healthy

(***************************************************************************)
(* SpecOnly2xx: GET requests of one route under the auto strategy whose    *)
(* handler answers with any status, payload and call, with time passing    *)
(* and the store going down and coming back.                               *)
(***************************************************************************)
\* The handler may also pass undefined: res.json() without a payload.
ResponsesOrNone == Responses \cup {Response(200, JUndefined, "json")}

NextOnly2xx ==
    \/ RouteArrive(GET, GetRoute(1))
    \/ \E r \in 1..MaxReqs, a \in ResponsesOrNone : Handle(r, a.statusCode, a.body, a.via)
    \/ Tick
    \/ Outage
    \/ Recover

SpecOnly2xx == Init /\ [][NextOnly2xx]_vars

\* In this step the handler of request r answers a miss through the
\* res.json the middleware installed.
AnswersMiss(r) ==
    /\ r <= Len(reqs)
    /\ reqs[r].st = "handler"
    /\ reqs[r].hook = "cache"
    /\ reqs'[r].st = "sent"
    /\ reqs'[r].via = "json"

\* The entry of request r's cache key holds the payload of its response,
\* with the route's ttl.
HoldsPayload(s, q) ==
    LET fullKey == generateKey(q.cacheKey, <<>>, q.cfg.namespace)
    IN /\ Has(s, fullKey)
       /\ s[fullKey].kind = "string"
       /\ decompress(s[fullKey].data) = JSONstringify(q.body)
       /\ s[fullKey].exp = q.storedAt + q.cfg.ttl

\* C17 (as claimed): the payload passed to res.json on a miss is stored
\* under the cache key if and only if the status is 2xx; a non-2xx response
\* leaves the store as it was.
C17_StoredIffSuccessful ==
    [][\A r \in 1..MaxReqs :
          AnswersMiss(r) =>
              IF is2xx(reqs'[r].statusCode)
                THEN HoldsPayload(store', reqs'[r])
                ELSE store' = store]_vars

\* C17 (amended): the payload is stored only if the status is 2xx, and a
\* 2xx payload is stored when it has a JSON text and the store is up; a
\* non-2xx response, a payload of undefined and a response while the store
\* is down leave the store as it was.
C17_StoredOnlyIfSuccessful ==
    [][\A r \in 1..MaxReqs :
          AnswersMiss(r) =>
              IF is2xx(reqs'[r].statusCode) /\ healthy /\ ~setThrows(reqs'[r].body)
                THEN HoldsPayload(store', reqs'[r])
                ELSE store' = store]_vars

\* One miss was answered 2xx and stored, another one non-2xx.
C17_Witness ==
    \E r, r2 \in 1..Len(reqs) :
        /\ reqs[r].hook = "cache" /\ reqs[r].st = "sent" /\ reqs[r].stored
        /\ reqs[r2].hook = "cache" /\ reqs[r2].st = "sent" /\ reqs[r2].via = "json"
        /\ ~is2xx(reqs[r2].statusCode)

(***************************************************************************)
(* SpecMutations: requests of every method through one middleware that     *)
(* caches GETs under tag t and invalidates by tags, by a pattern or by     *)
(* keys, in either timing mode.                                            *)
(***************************************************************************)
\* cacheMiddleware(redis, { ttl: 1, autoCache: { tags: ['t'] },
\*                          invalidate: { tags | patterns | keys, afterResponse } })
InvRoute(kind, list, afterResponse) ==
    Config("auto", 1, NsA, TRUE, <<TagT>>, Invalidate(TRUE, kind, list, afterResponse))

InvRoutes ==
    {InvRoute(k.kind, k.list, afterResponse) :
        k \in {[kind |-> "tags", list |-> <<TagT>>],
               [kind |-> "patterns", list |-> <<GET \o <<":", "*">>>>],
               [kind |-> "keys", list |-> <<defaultKey(GET, PathP)>>]},
        afterResponse \in BOOLEAN}

\* The handler answers 200 or 404 through res.json, or 200 through res.send.
SentAnswers == Answers \cup {Response(200, JNum(1), "send")}

NextMutations ==
    \/ \E method \in {GET, HEAD} : RouteArrive(method, InvRoute("tags", <<TagT>>, TRUE))
    \/ \E cfg \in InvRoutes : RouteArrive(POST, cfg)
    \/ \E r \in 1..MaxReqs, a \in SentAnswers : Handle(r, a.statusCode, a.body, a.via)
    \/ \E r \in 1..MaxReqs : Immediate(r)
    \/ \E r \in 1..MaxReqs : Finish(r)
    \/ IbtSmembers
    \/ IbtExec
    \/ DpScan
    \/ DpDel

SpecMutations == Init /\ [][NextMutations]_vars

\* C18: invalidateByTags, delPattern or del is invoked for a request only
\* if it is a POST, PUT, PATCH or DELETE under the auto strategy whose
\* response status is 2xx; no task is waiting to invoke them for any other
\* request either.
C18_InvalidationOnlyAfterSuccess ==
    \A r \in 1..Len(reqs) :
        (reqs[r].invoked > 0 \/ reqs[r].tasks > 0) =>
            /\ reqs[r].method \in {POST, PUT, PATCH, DELETE}
            /\ reqs[r].cfg.strategy = "auto"
            /\ reqs[r].statusCode >= 200
            /\ reqs[r].statusCode < 300

\* A POST answered 404 whose response has finished, next to a mutation
\* answered 2xx whose invalidation was invoked.
C18_Witness ==
    \E r, r2 \in 1..Len(reqs) :
        /\ reqs[r].method = POST
        /\ reqs[r].statusCode = 404
        /\ reqs[r].hook = "finish" => reqs[r].finished
        /\ reqs[r2].invoked > 0

\* C20: an invalidation call is made for a request only once its response
\* has been emitted: in afterResponse mode the tasks are handed to the
\* scheduler after the emitting call, and in the default mode the call
\* waits for the finish event of the response.
C20_InvalidationAfterResponse ==
    \A r \in 1..Len(reqs) :
        /\ reqs[r].tasks > 0 => reqs[r].emitted
        /\ reqs[r].invoked > 0 => (reqs[r].emitted /\ ~reqs[r].early)
        /\ (reqs[r].invoked > 0 /\ reqs[r].hook = "finish") => reqs[r].finished

\* Invalidation has been invoked in each timing mode.
C20_Witness ==
    \E r, r2 \in 1..Len(reqs) :
        /\ reqs[r].hook = "afterResponse" /\ reqs[r].invoked > 0
        /\ reqs[r2].hook = "finish" /\ reqs[r2].invoked > 0

(***************************************************************************)
(* SpecFailedInvalidation: GETs and POSTs through a middleware whose       *)
(* invalidate.tags is a list or a function that throws, in either timing   *)
(* mode, with the store going down and coming back.                        *)
(***************************************************************************)
FailingRoutes ==
    {InvRoute(k.kind, k.list, afterResponse) :
        k \in {[kind |-> "tags", list |-> <<TagT>>], [kind |-> "throws", list |-> <<>>]},
        afterResponse \in BOOLEAN}

NextFailedInvalidation ==
    \/ RouteArrive(GET, InvRoute("tags", <<TagT>>, TRUE))
    \/ \E cfg \in FailingRoutes : RouteArrive(POST, cfg)
    \/ \E r \in 1..MaxReqs, a \in SentAnswers : Handle(r, a.statusCode, a.body, a.via)
    \/ \E r \in 1..MaxReqs : Immediate(r)
    \/ \E r \in 1..MaxReqs : Finish(r)
    \/ IbtSmembers
    \/ IbtExec
    \/ Outage
    \/ Recover

SpecFailedInvalidation == Init /\ [][NextFailedInvalidation]_vars

\* C19: no step makes an error of an invalidation an unhandled failure of
\* a request, and no step changes a response that has been emitted.
C19_InvalidationFailsQuietly ==
    [][\A r \in 1..Len(reqs') :
          /\ ~reqs'[r].unhandled
          /\ (r <= Len(reqs) /\ reqs[r].emitted) =>
                /\ reqs'[r].emitted
                /\ reqs'[r].statusCode = reqs[r].statusCode
                /\ reqs'[r].body = reqs[r].body
                /\ reqs'[r].via = reqs[r].via
                /\ reqs'[r].xcache = reqs[r].xcache
                /\ reqs'[r].handled = reqs[r].handled]_vars

\* A resolver has thrown and been logged, and an invalidateByTags started
\* by a request has failed on the store.
C19_Witness ==
    /\ \E r \in 1..Len(reqs) : reqs[r].logged > 0 /\ reqs[r].emitted
    /\ last.op = "invalidateByTags"
    /\ ~last.ok

(***************************************************************************)
(* SpecManual: requests of every method through middlewares of strategy    *)
(* none and manual, next to GETs of the same path that the auto strategy   *)
(* caches, with the store going down and coming back.                      *)
(***************************************************************************)
ManualRoutes ==
    {[method |-> m, route |-> StrategyRoute(s)] :
        m \in {GET, POST, HEAD}, s \in {"none", "manual"}}
    \cup {[method |-> GET, route |-> GetRoute(1)]}

NextManual ==
    \/ \E cfg \in ManualRoutes : RouteArrive(cfg.method, cfg.route)
    \/ \E r \in 1..MaxReqs, a \in SentAnswers : Handle(r, a.statusCode, a.body, a.via)
    \/ Outage
    \/ Recover

SpecManual == Init /\ [][NextManual]_vars

\* C21: a request through a middleware of strategy none or manual carries
\* no X-Cache and no X-Cache-Key header and no wrapped response method, is
\* handed to the next handler once, and no step of it sends a store command
\* (the store is as it was, no lookup was made, nothing is scheduled).
C21_ManualPassesThrough ==
    [][\A r \in 1..Len(reqs') :
          reqs'[r].cfg.strategy \in {"none", "manual"} =>
              /\ reqs'[r].xcache = "none"
              /\ reqs'[r].cacheKey = <<>>
              /\ reqs'[r].hook = "none"
              /\ ~reqs'[r].lookupFailed
              /\ ~reqs'[r].stored
              /\ reqs'[r].tasks = 0
              /\ reqs'[r].invoked = 0
              /\ reqs'[r].st \in {"handler", "sent"}
              /\ reqs'[r].handled = (IF reqs'[r].st = "sent" THEN 1 ELSE 0)
              /\ (r > Len(reqs) \/ reqs'[r] # reqs[r]) => store' = store]_vars

\* A GET of strategy manual has the handler's response although the entry
\* an auto GET of the same path stored is there.
C21_Witness ==
    /\ \E r \in 1..Len(reqs) :
          /\ reqs[r].cfg.strategy = "manual"
          /\ reqs[r].method = GET
          /\ reqs[r].st = "sent"
          /\ Has(store, generateKey(defaultKey(GET, PathP), <<>>, NsA))
    /\ Len(reqs) = 2

(***************************************************************************)
(* SpecCondition: GETs of one path through auto middlewares whose          *)
(* condition is absent, accepts or rejects, with the store going down and  *)
(* coming back.                                                            *)
(***************************************************************************)
Conditions == {"none", "accepts", "rejects"}

NextCondition ==
    \/ \E c \in Conditions : RouteArrive(GET, WithCondition(GetRoute(1), c))
    \/ \E r \in 1..MaxReqs, a \in SentAnswers : Handle(r, a.statusCode, a.body, a.via)
    \/ Outage
    \/ Recover

SpecCondition == Init /\ [][NextCondition]_vars

\* C22: an auto-strategy GET whose condition returns false makes no cache
\* lookup, carries no X-Cache header, gets no response interception,
\* stores nothing (no step of it changes the store) and is handed to the
\* next handler once.
C22_FalseConditionSkipsCaching ==
    [][\A r \in 1..Len(reqs') :
          (reqs'[r].method = GET /\ reqs'[r].cfg.strategy = "auto"
              /\ reqs'[r].cfg.autoCache.condition = "rejects") =>
              /\ reqs'[r].xcache = "none"
              /\ reqs'[r].cacheKey = <<>>
              /\ reqs'[r].hook = "none"
              /\ ~reqs'[r].lookupFailed
              /\ ~reqs'[r].stored
              /\ reqs'[r].st \in {"handler", "sent"}
              /\ reqs'[r].handled = (IF reqs'[r].st = "sent" THEN 1 ELSE 0)
              /\ (r > Len(reqs) \/ reqs'[r] # reqs[r]) => store' = store]_vars

\* A GET that the condition rejects has the handler's 2xx response sent
\* with res.json while the entry of its path, stored for a GET the
\* condition accepted, is there.
C22_Witness ==
    \E r \in 1..Len(reqs) :
        /\ reqs[r].cfg.autoCache.condition = "rejects"
        /\ reqs[r].st = "sent"
        /\ reqs[r].via = "json"
        /\ is2xx(reqs[r].statusCode)
        /\ Has(store, generateKey(defaultKey(GET, PathP), <<>>, NsA))

(***************************************************************************)
(* The default cache key of GET requests with query strings: two paths,    *)
(* and queries of one or two parameters, one of them with a value that     *)
(* itself contains '&' and '=' (GET /p?a=1%26b%3D2, which Express parses   *)
(* to { a: '1&b=2' }).                                                     *)
(***************************************************************************)
PathQ == <<"/", "q">>

Pair(k, v) == [k |-> k, v |-> v]

Queries ==
    {<<>>,
     <<Pair(<<"a">>, <<"1">>)>>,
     <<Pair(<<"a">>, <<"1">>), Pair(<<"b">>, <<"2">>)>>,
     <<Pair(<<"b">>, <<"2">>), Pair(<<"a">>, <<"1">>)>>,
     <<Pair(<<"a">>, <<"1", "&", "b", "=", "2">>)>>}

NextKeys ==
    \/ \E path \in {PathP, PathQ}, query \in Queries :
           /\ Len(reqs) < MaxRouteReqs
           /\ ArriveWith(GET, path, query, JUndefined, GetRoute(1))
    \/ \E r \in 1..MaxReqs, a \in Answers : Handle(r, a.statusCode, a.body, a.via)

SpecKeys == Init /\ [][NextKeys]_vars

\* The query-parameter pairs of a request, as a set.
QueryPairs(q) == {q.query[i] : i \in 1..Len(q.query)}

\* The request went through the key generator.
Keyed(q) == q.cacheKey # <<>>

\* C23 (as claimed): two requests with the same method, path and query
\* pairs get the same default cache key whatever the order of the query
\* parameters, and two requests that differ in method, path or query pairs
\* get different keys.
C23_KeyOfMethodPathPairs ==
    \A i, j \in 1..Len(reqs) :
        Keyed(reqs[i]) /\ Keyed(reqs[j])
        => ((reqs[i].cacheKey = reqs[j].cacheKey)
            <=> (/\ reqs[i].method = reqs[j].method
                 /\ reqs[i].path = reqs[j].path
                 /\ QueryPairs(reqs[i]) = QueryPairs(reqs[j])))

\* The half of C23 that the key generator keeps: the key is a function of
\* method, path and the set of query pairs, whatever their order.
KeyIgnoresOrder ==
    \A i, j \in 1..Len(reqs) :
        /\ Keyed(reqs[i]) /\ Keyed(reqs[j])
        /\ reqs[i].method = reqs[j].method
        /\ reqs[i].path = reqs[j].path
        /\ QueryPairs(reqs[i]) = QueryPairs(reqs[j])
        => reqs[i].cacheKey = reqs[j].cacheKey

\* Two requests whose query parameters came in different orders got one key.
KeyIgnoresOrderWitness ==
    \E i, j \in 1..Len(reqs) :
        /\ Keyed(reqs[i]) /\ Keyed(reqs[j])
        /\ reqs[i].query # reqs[j].query
        /\ QueryPairs(reqs[i]) = QueryPairs(reqs[j])
        /\ reqs[i].cacheKey = reqs[j].cacheKey

\* What the collision of two keys does: the second request is answered
\* from the cache with the payload stored for different query pairs.
HitAcrossQueries ==
    \E i, j \in 1..Len(reqs) :
        /\ i < j
        /\ reqs[i].stored
        /\ reqs[j].xcache = "HIT"
        /\ reqs[i].path = reqs[j].path
        /\ QueryPairs(reqs[i]) # QueryPairs(reqs[j])

(***************************************************************************)
(* User scoping: GET /p on a route with autoCache.includeAuth, from        *)
(* requests without a user and from the users with the ids 0, 1, 2 and     *)
(* 'a'.                                                                    *)
(***************************************************************************)
UserIds == {JUndefined, JNum(0), JNum(1), JNum(2), JStr(<<"a">>)}

NextAuth ==
    \/ \E id \in UserIds :
           /\ Len(reqs) < MaxRouteReqs
           /\ ArriveWith(GET, PathP, <<>>, id, WithAuth(GetRoute(1)))
    \/ \E r \in 1..MaxReqs, a \in Answers : Handle(r, a.statusCode, a.body, a.via)

SpecAuth == Init /\ [][NextAuth]_vars

\* The request reqs[j] was answered from the cache with the response stored
\* for the earlier request reqs[i].
ServedFrom(i, j) ==
    /\ i < j
    /\ reqs[i].stored
    /\ reqs[j].xcache = "HIT"
    /\ reqs[i].cacheKey = reqs[j].cacheKey

\* C24 (as claimed): with includeAuth and the default key generator, a
\* response cached for a request carrying one user identifier is never
\* served as a HIT to a request carrying a different user identifier or
\* none, whatever the identifiers.
C24_UsersSeparated ==
    \A i, j \in 1..Len(reqs) :
        ServedFrom(i, j) => reqs[i].user = reqs[j].user

\* What holds of C24: a response cached for a user whose id is truthy is
\* only served to requests of that user.
TruthyUsersSeparated ==
    \A i, j \in 1..Len(reqs) :
        ServedFrom(i, j) /\ truthyId(reqs[i].user) => reqs[i].user = reqs[j].user

\* A user with a truthy id was served the response cached for that user.
TruthyUserServed ==
    \E i, j \in 1..Len(reqs) : ServedFrom(i, j) /\ truthyId(reqs[i].user)

(***************************************************************************)
(* The expiry of tag sets: set calls with tags in one namespace, and time. *)
(***************************************************************************)
NextTagExpiry ==
    \/ \E key \in {KeyK, KeyJ}, ttl \in TTLs, tags \in TagLists \ {<<>>} :
            Set(SvcA, key, JNum(1), ttl, tags)
    \/ Tick

SpecTagExpiry == Init /\ [][NextTagExpiry]_vars

\* The tag set of tag, in namespace ns, holds fullKey and does not expire
\* before the entry stored under fullKey.
TagSetCovers(ns, tag, fullKey) ==
    LET tagKey == tagKeyOf(tag, ns)
    IN /\ Has(store, tagKey)
       /\ store[tagKey].kind = "set"
       /\ fullKey \in store[tagKey].members
       /\ store[tagKey].exp >= store[fullKey].exp

\* C25 (as claimed): after any sequence of set calls with tags, each tag
\* set is there with a remaining expiry of at least the remaining TTL of
\* every live entry stored under its tag.
C25_TagSetOutlivesMembers ==
    \A fullKey \in DOMAIN tagged :
        \A tag \in tagged[fullKey].tags : TagSetCovers(tagged[fullKey].ns, tag, fullKey)

\* What the pipeline of set does keep: right after a set with tags that
\* reached the store, each of its tag sets lives as long as the entry just
\* written.
TagSetCoversLastWrite ==
    (last.op = "set" /\ last.ok /\ last.time = now)
        => LET fullKey == generateKey(last.key, <<>>, last.ns)
           IN Has(store, fullKey)
              => \A tag \in Range(last.tags) : TagSetCovers(last.ns, tag, fullKey)

(***************************************************************************)
(* The pipeline of set, command by command.  `this.redis.pipeline()` is a  *)
(* batch, not a MULTI/EXEC transaction: Redis runs its commands one by one *)
(* and may run the commands of other connections (other instances of the   *)
(* service on the same store) between them.  Set above is the pipeline     *)
(* with nothing in between; SetSend, SetSadd and SetExpire are the         *)
(* pipeline as the store may run it.                                       *)
(***************************************************************************)
\* pipeline.exec() is called: SETEX runs.  A set without tags, one that
\* raises before the pipeline or one sent to a store that is down is the
\* call of one step.
SetSend(svc, key, value, ttl, tags) ==
    /\ pc = "idle"
    /\ IF setThrows(value) \/ ~healthy \/ tags = <<>>
         THEN Set(svc, key, value, ttl, tags)
         ELSE /\ nops < MaxOps
              /\ nops' = nops + 1
              /\ LET fullKey == generateKey(key, <<>>, svc.namespace)
                     data == compress(JSONstringify(value))
                 IN /\ store' = cmdSETEX(store, now, fullKey, expiryOf(svc, ttl), data)
                    /\ tagged' = Put(Retag(tagged, store'), fullKey,
                                     [ns |-> svc.namespace, tags |-> Range(tags)])
                    /\ call' = [NoCall EXCEPT !.op = "set", !.svc = svc, !.key = key,
                                   !.data = value, !.ttl = ttl, !.tags = tags, !.i = 1,
                                   !.changed = Changed(store, store')]
              /\ pc' = "set_sadd"
              /\ UNCHANGED <<now, healthy, last, reqs, client>>

\* pipeline.sadd(tagKey, fullKey) runs.
SetSadd ==
    /\ pc = "set_sadd"
    /\ LET fullKey == generateKey(call.key, <<>>, call.svc.namespace)
           tagKey == tagKeyOf(call.tags[call.i], call.svc.namespace)
           s2 == IF healthy THEN cmdSADD(store, tagKey, fullKey) ELSE store
       IN /\ store' = s2
          /\ tagged' = Retag(tagged, s2)
          /\ call' = [call EXCEPT !.changed = call.changed \cup Changed(store, s2),
                                  !.ok = call.ok /\ healthy]
    /\ pc' = "set_expire"
    /\ UNCHANGED <<now, healthy, last, nops, reqs, client>>

\* pipeline.expire(tagKey, expiry) runs; after the last tag's, exec()
\* settles and set returns.
SetExpire ==
    /\ pc = "set_expire"
    /\ \E resolved \in BOOLEAN :
        LET tagKey == tagKeyOf(call.tags[call.i], call.svc.namespace)
            s2 == IF healthy
                    THEN cmdEXPIRE(store, now, tagKey, expiryOf(call.svc, call.ttl))
                    ELSE store
            c2 == [call EXCEPT !.changed = call.changed \cup Changed(store, s2),
                               !.ok = call.ok /\ healthy]
        IN /\ c2.ok => resolved
           /\ store' = s2
           /\ tagged' = Retag(tagged, s2)
           /\ IF call.i < Len(call.tags)
                THEN /\ resolved
                     /\ pc' = "set_sadd"
                     /\ call' = [c2 EXCEPT !.i = call.i + 1]
                     /\ UNCHANGED last
                ELSE Complete(c2, JBool(resolved))
    /\ UNCHANGED <<now, healthy, nops, reqs, client>>

(***************************************************************************)
(* Sets with tags of one instance and the calls of another on one store.   *)
(***************************************************************************)
NextPipelined ==
    \/ \E tags \in {<<>>, <<TagT>>, <<TagT, TagU>>} : SetSend(SvcA, KeyK, JNum(1), 1, tags)
    \/ SetSadd
    \/ SetExpire
    \/ Get(SvcA, KeyK)
    \/ Del(SvcA, KeyK)
    \/ Outage
    \/ Recover

SpecPipelined == Init /\ [][NextPipelined]_vars

\* The entry under fullKey is a member of the set of each tag it was
\* stored with.
Registered(fullKey) ==
    \A tag \in tagged[fullKey].tags :
        LET tagKey == tagKeyOf(tag, tagged[fullKey].ns)
        IN /\ Has(store, tagKey)
           /\ store[tagKey].kind = "set"
           /\ fullKey \in store[tagKey].members

\* C26 (as claimed): the entry write of a set with tags and the
\* registration of its key in every tag set take effect as one step: in no
\* state that another operation can observe is an entry stored without the
\* tag memberships it was stored with.
C26_SetWithTagsAtomic ==
    \A fullKey \in DOMAIN tagged : Registered(fullKey)

\* An operation of another instance that met the entry without its tag
\* memberships: a get that returned the value in the middle of the
\* pipeline.
GetSawUnregisteredEntry ==
    /\ pc \in {"set_sadd", "set_expire"}
    /\ last.op = "get"
    /\ last.ret # JNull
    /\ last.key = call.key
    /\ ~Registered(generateKey(call.key, <<>>, call.svc.namespace))

\* What the pipeline gives: once set has returned true with the store up
\* throughout and no other call in between, the entry is registered in
\* every tag set.
RegisteredOnReturn ==
    (pc = "idle" /\ last.op = "set" /\ last.ok /\ last.quiet /\ last.ret = JBool(TRUE))
        => LET fullKey == generateKey(last.key, <<>>, last.ns)
           IN fullKey \in DOMAIN tagged => Registered(fullKey)

(***************************************************************************)
(* Expiry: sets with a ttl of 0 (taken as omitted), 1 or 2 seconds, gets   *)
(* and time, on the key k and on the key that is also the key of tag t's   *)
(* set.                                                                    *)
(***************************************************************************)
NextExpiry ==
    \/ \E key \in {KeyK, KeyTagT}, ttl \in {0, 1, 2}, tags \in {<<>>, <<TagT>>} :
            Set(SvcA, key, JNum(1), ttl, tags)
    \/ \E key \in {KeyK, KeyTagT} : Get(SvcA, key)
    \/ Tick

SpecExpiry == Init /\ [][NextExpiry]_vars

\* The last completed call is a get, with the store up, of a key whose set
\* was the call before it, and the ttl given to that set has elapsed.
GetAfterTtl ==
    /\ last.op = "get"
    /\ last.ok
    /\ last.pred.op = "set"
    /\ last.pred.ok
    /\ last.time >= last.pred.time + last.pred.ttl

\* C27 (as claimed): an entry written by set(k, v, t) is no longer
\* observable once t seconds have elapsed without a re-write: get(k) then
\* returns null.
C27_ExpiresAfterTtl == GetAfterTtl => last.ret = JNull

\* The case of C27 that the code keeps: a ttl of at least 1 second, and no
\* call between the set and the get.
ExpiresAfterPositiveTtl == (GetAfterTtl /\ last.pred.ttl >= 1) => last.ret = JNull

\* A get found nothing after a ttl of 1 second had elapsed.
ExpiredAfterOneSecond ==
    /\ GetAfterTtl
    /\ last.pred.ttl = 1
    /\ last.pred.ret = JBool(TRUE)
    /\ last.ret = JNull

\* A set of another key changed the entry stored under the key of its
\* tag's set: the EXPIRE of its pipeline gave that entry a new expiry.
TagWriteMovedExpiry ==
    LET tagKey == tagKeyOf(TagT, NsA)
    IN /\ last.op = "set"
       /\ last.key = KeyK
       /\ tagKey \in last.changed
       /\ Has(store, tagKey)
       /\ store[tagKey].kind = "string"

(***************************************************************************)
(* Counters: incr calls on fresh keys with the store up, in two namespaces *)
(* and as time passes.                                                     *)
(***************************************************************************)
NextCounter ==
    \/ \E key \in {KeyK, KeyJ} : Incr(SvcA, key)
    \/ Incr(SvcAB, KeyK)
    \/ Tick

SpecCounter == Init /\ [][NextCounter]_vars

\* The count the store holds under a key, 0 for an absent key.
CountAt(fullKey) == IF Has(store, fullKey) THEN JSONparse(store[fullKey].data).n ELSE 0

\* The number of incr('k') calls made on the service of namespace a: all
\* the calls made, less those that went to the other two counters.
IncrsOfK ==
    nops - CountAt(generateKey(KeyJ, <<>>, NsA)) - CountAt(generateKey(KeyK, <<>>, NsAB))

\* C28: with a healthy store, the i-th of the incr(k) calls on a fresh key
\* k returns i.
C28_IthIncrReturnsI ==
    (last.op = "incr" /\ last.ns = NsA /\ last.key = KeyK) => last.ret = JNum(IncrsOfK)

\* The third incr('k') returned 3 and the second one 2 after a call on
\* another counter.
C28_Witness ==
    /\ last.op = "incr" /\ last.ns = NsA /\ last.key = KeyK
    /\ \/ last.ret = JNum(3)
       \/ last.ret = JNum(2) /\ IncrsOfK < nops

(***************************************************************************)
(* createRedisClient (core/redis.ts): the client, its connection and the   *)
(* shutdown routine registered for SIGTERM and SIGINT.                     *)
(***************************************************************************)
\* The number of termination signals in a behaviour.
MaxSignals == 3

SIGTERM == "SIGTERM"
SIGINT == "SIGINT"

\* Variant of shouldUseCluster that does not ask for production mode.
shouldUseClusterAnyMode(config) == Len(config.clusterNodes) > 0

\* `isProduction && clusterNodes && clusterNodes.length > 0`; an omitted
\* clusterNodes and an empty one are both <<>>.
shouldUseCluster(config) == config.isProduction /\ Len(config.clusterNodes) > 0

\* The client the three branches construct: a Cluster, a Redis from the
\* url when it is truthy (not omitted, not ''), a Redis from host and port.
clientKind(config) ==
    IF shouldUseCluster(config) THEN "cluster"
    ELSE IF config.url # <<>> THEN "url"
    ELSE "hostport"

\* createRedisClient(config): the client is constructed and starts
\* connecting, or waits for its first command with lazyConnect; `shutdown`
\* is registered once for each signal.
createRedisClientFrom(config) ==
    /\ client.status = "none"
    /\ client' = [client EXCEPT !.status = IF config.lazyConnect THEN "wait" ELSE "connecting",
                                !.listeners = {SIGTERM, SIGINT},
                                !.kind = clientKind(config),
                                !.nodes = IF shouldUseCluster(config)
                                            THEN Len(config.clusterNodes) ELSE 0,
                                !.config = config]
    /\ UNCHANGED <<store, now, healthy, pc, call, last, tagged, nops, reqs>>

\* createRedisClient with the defaults for all but lazyConnect.
createRedisClient(lazyConnect) ==
    createRedisClientFrom(RedisConfig(<<>>, <<>>, FALSE, lazyConnect))

\* The statuses the connection of a client passes through by itself
\* (ioredis): connecting, connect, ready; close on a lost or refused
\* connection, then reconnecting and connecting again under the retry
\* strategy; connecting from wait on the first command.
StatusAfter(status) ==
    CASE status = "wait" -> {"connecting"}
      [] status = "connecting" -> {"connect", "close"}
      [] status = "connect" -> {"ready", "close"}
      [] status = "ready" -> {"close"}
      [] status = "close" -> {"reconnecting"}
      [] status = "reconnecting" -> {"connecting"}
      [] OTHER -> {}

\* The number of reconnect attempts in a row.
MaxRetries == 41

\* `retryStrategy: (times) => Math.min(times * 50, 2000)`, of the two
\* single-node clients.
retryStrategy(times) == Min(times * 50, 2000)

\* `clusterRetryStrategy: (times) => Math.min(times * 50, 2000)`
clusterRetryStrategy(times) == Min(times * 50, 2000)

\* The delay, in ms, before reconnect attempt `times` of a client.
retryDelay(kind, times) ==
    IF kind = "cluster" THEN clusterRetryStrategy(times) ELSE retryStrategy(times)

\* The connection moves on.  On a close the client asks its retry strategy
\* for the delay of the next attempt (`++retryAttempts`); the count starts
\* again once the connection is ready.  A client that has been told to
\* close and has closed is at "end" for good.
Connection ==
    /\ ~client.exited
    /\ \E status \in StatusAfter(client.status) :
           /\ status = "reconnecting" => client.retryAttempts < MaxRetries
           /\ client' =
                 IF status = "reconnecting"
                   THEN [client EXCEPT
                            !.status = status,
                            !.retryAttempts = client.retryAttempts + 1,
                            !.delays = Append(client.delays,
                                              retryDelay(client.kind, client.retryAttempts + 1))]
                 ELSE IF status = "ready"
                   THEN [client EXCEPT !.status = status, !.retryAttempts = 0,
                                       !.delays = <<>>]
                 ELSE [client EXCEPT !.status = status]
    /\ UNCHANGED <<store, now, healthy, pc, call, last, tagged, nops, reqs>>

\* Variant of alreadyShuttingDown that never stops a second attempt.
alreadyShuttingDownNever(isShuttingDown) == FALSE

\* `if (isShuttingDown) return;`
alreadyShuttingDown(isShuttingDown) == isShuttingDown

\* Variant of isActive that only counts a ready connection.
isActiveReadyOnly(status) == status = "ready"

\* `status === 'ready' || status === 'connect' || status === 'connecting'`
isActive(status) == status \in {"ready", "connect", "connecting"}

\* The shutdown routine up to its await: the flag, then quit on an active
\* connection and disconnect otherwise.
shutdown(c) ==
    IF alreadyShuttingDown(c.isShuttingDown) THEN [c EXCEPT !.late = c.late + 1]
    ELSE IF isActive(c.status)
      THEN [c EXCEPT !.isShuttingDown = TRUE, !.seen = c.status, !.sd = "quit",
                     !.told = Append(c.told, "quit")]
    ELSE [c EXCEPT !.isShuttingDown = TRUE, !.seen = c.status, !.sd = "done",
                   !.told = Append(c.told, "disconnect"), !.status = "end"]

\* The process receives a termination signal.  process.once: the listener
\* of the signal is taken off and `shutdown` runs; a signal that has no
\* listener left ends the process.
Signal(sig) ==
    /\ client.status # "none"
    /\ ~client.exited
    /\ client.signals < MaxSignals
    /\ LET c == [client EXCEPT !.signals = client.signals + 1]
       IN client' = IF sig \in c.listeners
                      THEN shutdown([c EXCEPT !.listeners = c.listeners \ {sig}])
                      ELSE [c EXCEPT !.exited = TRUE]
    /\ UNCHANGED <<store, now, healthy, pc, call, last, tagged, nops, reqs>>

\* `await client.quit()` settles: with the server's OK, after which the
\* connection ends, or with an error (the connection was lost, the
\* retries ran out), which the catch answers with client.disconnect().
QuitSettles(ok) ==
    /\ client.sd = "quit"
    /\ ~client.exited
    /\ ok => client.status = "ready"
    /\ client' = IF ok
                   THEN [client EXCEPT !.sd = "done", !.status = "end"]
                   ELSE [client EXCEPT !.sd = "done", !.status = "end",
                                       !.quitFailed = TRUE,
                                       !.told = Append(client.told, "disconnect")]
    /\ UNCHANGED <<store, now, healthy, pc, call, last, tagged, nops, reqs>>

NextShutdown ==
    \/ \E lazyConnect \in BOOLEAN : createRedisClient(lazyConnect)
    \/ Connection
    \/ \E sig \in {SIGTERM, SIGINT} : Signal(sig)
    \/ \E ok \in BOOLEAN : QuitSettles(ok)

SpecShutdown == Init /\ [][NextShutdown]_vars

\* C29: once the first termination signal has started the shutdown
\* routine, a later termination signal performs no action on the client:
\* no further quit, no further disconnect.
C29_ShutdownIdempotent ==
    [][(client.isShuttingDown /\ client'.signals # client.signals)
           => client'.told = client.told]_vars

\* A second signal ran `shutdown` again and returned at the flag.
C29_Witness ==
    /\ client.isShuttingDown
    /\ client.signals >= 2
    /\ client.late >= 1

\* C30: when the shutdown routine has completed, the client was told to
\* quit if its connection was active (ready, connect or connecting) when
\* the routine read its status and to disconnect otherwise, and a client
\* whose quit failed was told to disconnect after it: the client has always
\* been told to close.
C30_OrderlyShutdown ==
    client.sd = "done" =>
        /\ client.told # <<>>
        /\ client.seen \in {"ready", "connect", "connecting"}
               => client.told = IF client.quitFailed THEN <<"quit", "disconnect">>
                                  ELSE <<"quit">>
        /\ client.seen \notin {"ready", "connect", "connecting"}
               => client.told = <<"disconnect">>

\* A shutdown completed after a quit that failed, on a connection that was
\* not ready yet when the signal came.
C30_Witness ==
    /\ client.sd = "done"
    /\ client.quitFailed
    /\ client.seen \in {"connect", "connecting"}

(***************************************************************************)
(* The client createRedisClient constructs, for configurations with and    *)
(* without a url, with no, one and two cluster nodes, in and out of        *)
(* production mode.                                                        *)
(***************************************************************************)
RedisUrl == <<"r", "e", "d", "i", "s", ":", "/", "/", "h">>

Node1 == <<"n", "1", ":", "1">>

Node2 == <<"n", "2", ":", "1">>

RedisConfigs ==
    {RedisConfig(url, clusterNodes, isProduction, lazyConnect) :
        url \in {<<>>, RedisUrl},
        clusterNodes \in {<<>>, <<Node1>>, <<Node1, Node2>>},
        isProduction \in BOOLEAN,
        lazyConnect \in BOOLEAN}

NextClient ==
    \/ \E config \in RedisConfigs : createRedisClientFrom(config)
    \/ Connection
    \/ \E sig \in {SIGTERM, SIGINT} : Signal(sig)
    \/ \E ok \in BOOLEAN : QuitSettles(ok)

SpecClient == Init /\ [][NextClient]_vars

MaxDelay == 2000

\* C32 (as claimed): the delay before reconnect attempt n is at most 2000
\* ms, is not smaller than the delay of attempt n-1, and grows
\* exponentially (by a constant factor from attempt to attempt) until it
\* reaches the cap.
C32_BoundedExponentialBackoff ==
    \A n \in 1..Len(client.delays) :
        /\ client.delays[n] <= MaxDelay
        /\ n > 1 => client.delays[n] >= client.delays[n - 1]
        /\ (n > 2 /\ client.delays[n] < MaxDelay)
               => client.delays[n] * client.delays[n - 2]
                      = client.delays[n - 1] * client.delays[n - 1]

\* What the retry strategies give: a delay that grows by 50 ms with each
\* attempt, is never smaller than the one before and stays at the cap of
\* 2000 ms from attempt 40 on.
BoundedLinearBackoff ==
    \A n \in 1..Len(client.delays) :
        /\ client.delays[n] <= MaxDelay
        /\ n > 1 => client.delays[n] >= client.delays[n - 1]
        /\ client.delays[n] < MaxDelay => client.delays[n] = 50 * n
        /\ n >= 40 => client.delays[n] = MaxDelay

\* A cluster client reached the cap and stayed there.
BackoffAtCap ==
    /\ client.kind = "cluster"
    /\ Len(client.delays) = 41
    /\ client.delays[40] = MaxDelay
    /\ client.delays[41] = MaxDelay

(***************************************************************************)
(* How a request is handled: the methods and routes of SpecPassThrough and *)
(* GET on routes whose condition rejects the request or throws, with the   *)
(* store going down and coming back.                                       *)
(***************************************************************************)
NextHandled ==
    \/ \E cfg \in Routes : RouteArrive(cfg.method, cfg.route)
    \/ \E c \in {"rejects", "throws"} : RouteArrive(GET, WithCondition(GetRoute(1), c))
    \/ \E r \in 1..MaxReqs, a \in Answers : Handle(r, a.statusCode, a.body, a.via)
    \/ \E r \in 1..MaxReqs : Immediate(r)
    \/ \E r \in 1..MaxReqs : Finish(r)
    \/ IbtSmembers
    \/ IbtExec
    \/ Outage
    \/ Recover

SpecHandled == Init /\ [][NextHandled]_vars

\* The middleware answered request q from the cache: the response went out
\* without the handler, with the value the lookup found as its body.
AnsweredFromCache(q) ==
    /\ q.emitted
    /\ q.handled = 0
    /\ q.cached \notin {JUndefined, JNull, Raised}
    /\ q.body = q.cached

\* Request q is handled exactly one way, and carries X-Cache: HIT exactly
\* when it was answered from the cache.
HandledOneWay(q) ==
    /\ \/ AnsweredFromCache(q) /\ q.nexts = 0
       \/ ~AnsweredFromCache(q) /\ q.nexts = 1
    /\ (q.xcache = "HIT") <=> AnsweredFromCache(q)
    /\ q.handled <= q.nexts

\* C33 (as claimed): for every request and configuration, the middleware
\* either answers from the cache (X-Cache: HIT, next handler never called)
\* or calls the next handler exactly once, never both and never neither;
\* X-Cache is HIT if and only if the response body is the cached value.
C33_HandledExactlyOneWay ==
    \A r \in 1..Len(reqs) : HandledOneWay(reqs[r])

\* C33 (amended): the same for every request whose condition callback
\* returns; a request whose condition callback throws is neither answered
\* nor passed on by the middleware.
C33_HandledOneWayUnlessCallbackThrows ==
    \A r \in 1..Len(reqs) :
        IF conditionThrows(reqs[r].cfg.autoCache) /\ reqs[r].method = GET
                /\ ~isPassThrough(reqs[r].cfg.strategy)
          THEN reqs[r].nexts = 0 /\ ~reqs[r].emitted /\ reqs[r].xcache = "none"
          ELSE HandledOneWay(reqs[r])

\* A request was answered from the cache, after one that went to the
\* handler on a miss.
C33_Witness ==
    /\ Len(reqs) = 2
    /\ reqs[1].xcache = "MISS" /\ reqs[1].nexts = 1 /\ reqs[1].handled = 1
    /\ reqs[2].xcache = "HIT" /\ reqs[2].nexts = 0 /\ AnsweredFromCache(reqs[2])

(***************************************************************************)
(* Sets with tag t and invalidateByTags([t]) of another request, its       *)
(* SMEMBERS and its pipeline being two round trips to the store.  No time  *)
(* passes, so nothing expires.                                             *)
(***************************************************************************)
NextRacingInvalidation ==
    \/ \E key \in {KeyK, KeyJ}, ttl \in TTLs : Set(SvcA, key, JNum(1), ttl, <<TagT>>)
    \/ InvalidateByTags(SvcA, <<TagT>>)
    \/ IbtSmembers
    \/ IbtExec

SpecRacingInvalidation == Init /\ [][NextRacingInvalidation]_vars

\* C34 (as claimed): once a set(k, v, ttl, [t]) and an invalidateByTags([t])
\* that ran interleaved have both completed, the entry k is absent or k is
\* a member of t's tag set: no live entry stored with tag t is left outside
\* the tag set.
C34_MembershipSurvivesInvalidation ==
    pc = "idle" => \A fullKey \in DOMAIN tagged : Registered(fullKey)

\* What holds when the calls do not overlap: after a set, and after an
\* invalidateByTags during which no other call changed the store, every
\* live entry is in its tag set.
MembershipSurvivesAlone ==
    (pc = "idle" /\ (last.op = "set" \/ last.quiet))
        => \A fullKey \in DOMAIN tagged : Registered(fullKey)

(***************************************************************************)
(* An auto-cached GET racing a mutating request that invalidates its key   *)
(* or its tag.  The handlers work on a resource whose version is the       *)
(* number of successful mutations so far: the handler of a GET first reads *)
(* the resource and later answers with what it read, the handler of a POST *)
(* changes it and answers.                                                 *)
(***************************************************************************)
\* The number of requests that await their handler at one time.
MaxRacing == 2

\* The version of the resource.
DbVersion ==
    Cardinality({i \in 1..Len(reqs) :
        isMutationRequest(reqs[i].method) /\ reqs[i].handled > 0 /\ is2xx(reqs[i].statusCode)})

RaceArrive(method, cfg) ==
    /\ Len(reqs) < MaxRouteReqs
    /\ ArriveOpen(method, PathP, <<>>, JUndefined, cfg, MaxRacing)

\* The handler of a GET reads the resource.
Produce(r) ==
    /\ r \in 1..Len(reqs)
    /\ reqs[r].st = "handler"
    /\ reqs[r].method = GET
    /\ reqs[r].produced = JUndefined
    /\ reqs' = [reqs EXCEPT ![r].produced = JNum(DbVersion)]
    /\ UNCHANGED <<store, now, healthy, pc, call, last, tagged, nops, client>>

\* The handler of a GET answers res.json(what it read).
Answer(r) ==
    /\ r \in 1..Len(reqs)
    /\ reqs[r].method = GET
    /\ reqs[r].produced # JUndefined
    /\ Handle(r, 200, reqs[r].produced, "json")

\* The handler of a POST changes the resource and answers.
Mutate(r) ==
    /\ r \in 1..Len(reqs)
    /\ reqs[r].method = POST
    /\ Handle(r, 200, JNum(DbVersion + 1), "json")

NextRace ==
    \/ RaceArrive(GET, GetRoute(1))
    \/ \E cfg \in {InvRoute("tags", <<TagT>>, FALSE),
                   InvRoute("keys", <<defaultKey(GET, PathP)>>, FALSE),
                   InvRoute("keys", <<defaultKey(GET, PathP)>>, TRUE)} : RaceArrive(POST, cfg)
    \/ \E r \in 1..MaxReqs : Produce(r)
    \/ \E r \in 1..MaxReqs : Answer(r)
    \/ \E r \in 1..MaxReqs : Mutate(r)
    \/ \E r \in 1..MaxReqs : Immediate(r)
    \/ \E r \in 1..MaxReqs : Finish(r)
    \/ IbtSmembers
    \/ IbtExec

SpecRace == Init /\ [][NextRace]_vars

\* Every mutating request that was answered 2xx has had its invalidation
\* run to its end.
InvalidationsCompleted ==
    /\ pc = "idle"
    /\ \A i \in 1..Len(reqs) :
           (isMutationRequest(reqs[i].method) /\ reqs[i].handled > 0)
               => (Settled(reqs[i]) /\ reqs[i].invoked > 0)

\* The store holds, under the cache key of GET request r, a payload the
\* handler read before a mutation.
HoldsStale(r) ==
    LET q == reqs[r]
        svc == Service(q.cfg.namespace, q.cfg.ttl)
    IN /\ q.method = GET
       /\ q.cacheKey # <<>>
       /\ getValue(store, svc, q.cacheKey, <<>>) \notin {JNull, JUndefined}
       /\ getValue(store, svc, q.cacheKey, <<>>).n < DbVersion

\* C35 (as claimed): once the invalidation of a mutating request has
\* completed, the store holds no entry for a racing auto-cached GET whose
\* payload the handler produced before the mutation.
C35_NoStaleEntryAfterInvalidation ==
    (DbVersion > 0 /\ InvalidationsCompleted) => \A r \in 1..Len(reqs) : ~HoldsStale(r)

\* What holds: a GET that was answered before the mutating request arrived
\* leaves no entry behind once the invalidation has completed.
NoStaleEntryWithoutRace ==
    (DbVersion > 0 /\ InvalidationsCompleted)
        => \A r \in 1..Len(reqs) :
               (reqs[r].method = GET /\ reqs[r].stored /\ r < Len(reqs)
                    /\ \A i \in 1..Len(reqs) :
                           isMutationRequest(reqs[i].method) => (i > r /\ reqs[i].quiet))
                   => ~HoldsStale(r)

(***************************************************************************)
(* How often performInvalidation runs for one response.                    *)
(***************************************************************************)
\* Request r is a mutating request with an invalidation configured whose
\* handler answered 2xx with a single call and whose hooks have all run.
AnsweredOnce(r) ==
    /\ isMutationRequest(reqs[r].method)
    /\ reqs[r].hook # "none"
    /\ reqs[r].handled = 1
    /\ is2xx(reqs[r].statusCode)
    /\ Settled(reqs[r])

\* C36 (as claimed): for a successful mutating request whose handler emits
\* its response with a single call, performInvalidation is executed exactly
\* once, in afterResponse mode as in default mode.
C36_InvalidationOncePerResponse ==
    \A r \in 1..Len(reqs) : AnsweredOnce(r) => reqs[r].invoked = 1

\* What holds: once in default mode and for res.send in afterResponse mode,
\* twice for res.json in afterResponse mode.
InvalidationPerHook ==
    \A r \in 1..Len(reqs) :
        AnsweredOnce(r) =>
            reqs[r].invoked = (IF reqs[r].hook = "afterResponse" /\ reqs[r].via = "json"
                               THEN 2 ELSE 1)

(***************************************************************************)
(* The expiry of what set writes, for every number a caller can pass as    *)
(* ttl.  ttl is a JavaScript number; here it is given in half seconds, so  *)
(* that 3 stands for 1.5.  Redis takes the seconds of SETEX and EXPIRE as  *)
(* a whole number and refuses anything else ("value is not an integer or   *)
(* out of range"); the pipeline goes on after a refused command.           *)
(***************************************************************************)
\* The halves that stand for a whole number of seconds.
isWhole(halves) == halves % 2 = 0

\* The SADDs of the pipeline, for an expiry that Redis refuses: the EXPIRE
\* after each SADD is refused as the SETEX was.
RECURSIVE pipelineTagsRefused(_, _, _, _)
pipelineTagsRefused(s, fullKey, tags, thisNamespace) ==
    IF tags = <<>> THEN s
    ELSE pipelineTagsRefused(cmdSADD(s, tagKeyOf(Head(tags), thisNamespace), fullKey),
                             fullKey, Tail(tags), thisNamespace)

\* The keyspace after the pipeline of set(key, value, halves / 2, tags).
setPipelineOfNumber(s, t, svc, key, value, halves, tags) ==
    IF isWhole(halves) THEN setPipeline(s, t, svc, key, value, halves \div 2, tags)
    ELSE pipelineTagsRefused(s, generateKey(key, <<>>, svc.namespace), tags, svc.namespace)

\* CacheService.set with the store up, for a ttl of halves / 2 seconds.
\* pipeline.exec() resolves with the refusals in its result, which set does
\* not read: it returns true.
SetNumber(svc, key, value, halves, tags) ==
    /\ nops < MaxOps
    /\ nops' = nops + 1
    /\ healthy
    /\ ~setThrows(value)
    /\ LET fullKey == generateKey(key, <<>>, svc.namespace)
       IN /\ store' = setPipelineOfNumber(store, now, svc, key, value, halves, tags)
          /\ tagged' = IF isWhole(halves)
                         THEN Put(Retag(tagged, store'), fullKey,
                                  [ns |-> svc.namespace, tags |-> Range(tags)])
                         ELSE Retag(tagged, store')
          /\ call' = Disturb(call, store, store')
          /\ last' = [NoRecord EXCEPT !.op = "set", !.ns = svc.namespace, !.key = key,
                         !.val = value, !.ttl = halves \div 2, !.tags = tags,
                         !.ret = JBool(TRUE), !.time = now,
                         !.changed = Changed(store, store'),
                         !.ok = isWhole(halves), !.quiet = (pc = "idle")]
    /\ UNCHANGED <<now, healthy, pc, reqs, client>>

\* ttl omitted or 0, 1, 1.5 and 2 seconds.
Halves == {0, 2, 3, 4}

NextEveryExpiry ==
    \/ \E key \in {KeyK, KeyTagT}, halves \in Halves, tags \in {<<>>, <<TagT>>} :
            SetNumber(SvcA, key, JNum(1), halves, tags)
    \/ Tick

SpecEveryExpiry == Init /\ [][NextEveryExpiry]_vars

\* C37 (as claimed): no sequence of set calls, with a ttl of at least 1 or
\* with the ttl omitted or 0, leaves an entry or a tag set in the store
\* without an expiry.
C37_EverythingExpires == \A k \in DOMAIN store : store[k].exp # 0

\* What holds: an entry always carries an expiry, and a set with a whole
\* ttl leaves its entry with that expiry (the default one for 0) and every
\* key it wrote with an expiry.
EntriesExpire ==
    /\ \A k \in DOMAIN store : store[k].kind = "string" => store[k].exp # 0
    /\ (last.op = "set" /\ last.ok) =>
           /\ Has(store, generateKey(last.key, <<>>, last.ns)) =>
                  store[generateKey(last.key, <<>>, last.ns)].exp
                      = last.time + expiryOf(SvcA, last.ttl)
           /\ \A k \in last.changed : Has(store, k) => store[k].exp # 0

(***************************************************************************)
(* The batches of delPattern, on a store that holds more keys than one     *)
(* batch takes.                                                            *)
(***************************************************************************)
\* The number of entries the application writes before a pattern deletion.
MaxCollected == 201

\* The key of the i-th entry: k1, k2, ...
keyNumbered(i) == <<"k">> \o DecimalText(i)

\* The keyspace after set(k1, 1, ttl), ..., set(kn, 1, ttl): the keys are
\* n different ones and no tag is given, so each entry is the one its own
\* set writes.
setEach(s, t, svc, n, ttl) ==
    LET fullKey(i) == generateKey(keyNumbered(i), <<>>, svc.namespace)
        written == {fullKey(i) : i \in 1..n}
        entry(k) == LET i == CHOOSE j \in 1..n : fullKey(j) = k
                    IN setPipeline(s, t, svc, keyNumbered(i), JNum(1), ttl, <<>>)[k]
    IN [k \in written \cup DOMAIN s |-> IF k \in written THEN entry(k) ELSE s[k]]

\* n calls of CacheService.set in a row, for the keys k1 to kn.
SetMany(svc, n, ttl) ==
    /\ pc = "idle"
    /\ healthy
    /\ DOMAIN store = {}
    /\ nops < MaxOps
    /\ nops' = nops + 1
    /\ LET written == {generateKey(keyNumbered(i), <<>>, svc.namespace) : i \in 1..n}
       IN /\ store' = setEach(store, now, svc, n, ttl)
          /\ tagged' = [k \in written |-> [ns |-> svc.namespace, tags |-> {}]]
          /\ call' = Disturb(call, store, store')
          /\ last' = [NoRecord EXCEPT !.op = "set", !.ns = svc.namespace,
                         !.key = keyNumbered(n), !.val = JNum(1), !.ttl = ttl,
                         !.ret = JBool(TRUE), !.time = now,
                         !.changed = Changed(store, store'), !.ok = TRUE]
    /\ UNCHANGED <<now, healthy, pc, reqs, client>>

\* Numbers of entries around the ends of the batches.
Sizes == {1, batchSize - 1, batchSize, batchSize + 1, 2 * batchSize, MaxCollected}

NextBatches ==
    \/ \E n \in Sizes : SetMany(SvcA, n, 1)
    \/ \E pattern \in {<<"*">>, <<"k", "1", "*">>} : DelPattern(SvcA, pattern)
    \/ DpScanBy(TRUE)
    \/ DpDel

SpecBatches == Init /\ [][NextBatches]_vars

RECURSIVE Flatten(_)
Flatten(ss) == IF ss = <<>> THEN <<>> ELSE Head(ss) \o Flatten(Tail(ss))

\* The batches of the DEL commands issued so far are slices of at most
\* batchSize keys, none empty, that laid end to end are the first
\* `covered` of the collected keys.
BatchesCover(batches, keysToDelete, covered) ==
    /\ \A j \in 1..Len(batches) : Len(batches[j]) \in 1..batchSize
    /\ Flatten(batches) = Sub(keysToDelete, 1, covered)

\* C38: every DEL command of delPattern names at most 100 keys, the batches
\* are disjoint slices that together cover every collected key exactly
\* once, and no DEL command is issued when nothing matched.
C38_BoundedBatches ==
    /\ pc = "dp_del" =>
           BatchesCover(call.batches, call.keysToDelete,
                        Min(call.i, Len(call.keysToDelete)))
    /\ (last.op = "delPattern" /\ last.ok) =>
           /\ BatchesCover(last.batches, last.keysToDelete, Len(last.keysToDelete))
           /\ last.keysToDelete = <<>> => last.batches = <<>>
           /\ last.ret = JNum(Len(last.keysToDelete))

\* A delPattern deleted more than two batches of keys, the last one short.
C38_Witness ==
    /\ last.op = "delPattern"
    /\ last.ok
    /\ Len(last.batches) >= 3
    /\ Len(last.batches[Len(last.batches)]) < batchSize
    /\ DOMAIN store = {}

(***************************************************************************)
(* The marker of compressed payloads, on SpecRoundTrip: the payload a set  *)
(* stored, against the serialized text of its value.                       *)
(***************************************************************************)
\* The last completed call is a set that stored its payload, and the entry
\* is still there.
SetStored ==
    /\ last.op = "set"
    /\ last.ok
    /\ Has(store, generateKey(last.key, <<>>, last.ns))

\* The payload stored under the key of the last call.
StoredData == store[generateKey(last.key, <<>>, last.ns)].data

\* C39: a serialized value is stored behind the marker exactly if its
\* serialized length exceeds 1024, and decompress gives back the serialized
\* text from what compress stored, so that a payload stored verbatim is
\* never read as a compressed one.
C39_MarkerReversible ==
    SetStored =>
        LET s == JSONstringify(last.val)
        IN /\ StartsWith(StoredData, Marker) <=> Len(s) > compressionThreshold
           /\ Len(s) <= compressionThreshold => StoredData = s
           /\ decompress(StoredData) = s

\* A value whose serialized text has exactly the threshold's length was
\* stored verbatim and is read back as its own text.
C39_Witness ==
    /\ SetStored
    /\ Len(JSONstringify(last.val)) = compressionThreshold
    /\ StoredData = JSONstringify(last.val)
    /\ decompress(StoredData) = StoredData

====
